---- MODULE Spec2Model ----
(***************************************************************************)
(* droid2api: an OpenAI-compatible proxy in front of three upstream        *)
(* families (anthropic, openai, common).                                   *)
(*                                                                         *)
(* Two groups of definitions:                                              *)
(*   - pure functions of the code as operators over JSON objects (records  *)
(*     with a dynamic domain), each checked under a specification whose    *)
(*     initial states enumerate the inputs: the request-body rewriting     *)
(*     (SpecXform), the non-streaming response adapter (SpecAdapter),      *)
(*     getCommonHeaders (SpecHeaders), and transformToCommon over a heap   *)
(*     of objects (SpecPurity);                                            *)
(*   - the handlers of routes.js as a state machine over requests, with    *)
(*     the credential manager (auth.js), the model registry (config.js)    *)
(*     and the process start (server.js), checked under Spec (one request, *)
(*     every input), SpecConcurrent (several requests racing on the        *)
(*     credential cache), SpecStream (one streaming request, every         *)
(*     upstream event stream) and SpecStartup (the start, then a request). *)
(*                                                                         *)
(* A JSON object is a function from its keys to values: a field is absent  *)
(* when its key is not in the DOMAIN; `delete o.f` restricts the domain,   *)
(* `{...o, f: v}` extends or overrides it.  Strings are TLA+ strings and   *)
(* `+` on strings is \o.  A value that the code tests with typeof or       *)
(* Array.isArray is tagged: [str |-> s] for a string, [arr |-> seq] for an *)
(* array.                                                                  *)
(***************************************************************************)
EXTENDS Integers, Sequences, FiniteSets, TLC

VARIABLES
    config,     \* the loaded configuration and environment (immutable after load)
    tkind,      \* SpecXform: which rewriting is applied: "common", "responses", "messages"
    tin,        \* SpecXform: the client request body
    tout,       \* SpecXform: <<>> before, <<outbound body>> after the rewriting
    task,       \* per request: the handler's position, the request, what it sent where
    cache,      \* auth.js: the cached refreshed credential [token, expiresAt]
    now,        \* the clock, in units of half the token lifetime
    refreshPromise, \* auth.js: 0, or the index in tokenCalls of the refresh in flight
    tokenCalls, \* every call made to the token endpoint, in order
    feed,       \* the chunks the upstream emits when it answers with an event stream
    server      \* server.js: the phase of the process, and whether its port is free

xvars == <<tkind, tin, tout>>
dvars == <<task, cache, now, refreshPromise, tokenCalls>>
vars == <<config, tkind, tin, tout, task, cache, now, refreshPromise, tokenCalls, feed, server>>

(***************************************************************************)
(* Bounds of the model.                                                    *)
(***************************************************************************)
\* longest client messages list enumerated
MaxMsgs == 2
\* requests handled concurrently in SpecConcurrent
NumTasks == 3
\* calls to the token endpoint in one run
MaxRefreshes == 2
\* last value of the clock
MaxTime == 2
\* chunks an upstream stream carries at most
MaxChunks == 4
\* output items an upstream response body carries at most
MaxItems == 2

(***************************************************************************)
(* JSON object helpers.                                                    *)
(***************************************************************************)
Has(o, f) == f \in DOMAIN o
\* delete o.f
Delete(o, f) == [k \in DOMAIN o \ {f} |-> o[k]]
\* { ...o, f: v }
With(o, f, v) == [k \in DOMAIN o \cup {f} |-> IF k = f THEN v ELSE o[k]]
\* { ...a, ...b }
Merge(a, b) == [k \in DOMAIN a \cup DOMAIN b |-> IF k \in DOMAIN b THEN b[k] ELSE a[k]]
\* o restricted to the keys outside fs: what is left to compare field by field
Without(o, fs) == [k \in DOMAIN o \ fs |-> o[k]]

(***************************************************************************)
(* Configuration and model registry (config.js).  Every configured model  *)
(* carries the reasoning level config.reasoning; a request touches one     *)
(* model, so one level per configuration loses nothing.                    *)
(***************************************************************************)
\* the models of config.json: id -> type
ModelType == [claude |-> "anthropic", gpt |-> "openai", glm |-> "common"]
ConfiguredIds == DOMAIN ModelType
\* the redirect table of config.json; "a-ghost" points at a model that is not configured
Redirects == [k \in {"a-claude", "a-gpt", "a-glm", "a-ghost"} |->
                CASE k = "a-claude" -> "claude"
                  [] k = "a-gpt" -> "gpt"
                  [] k = "a-glm" -> "glm"
                  [] OTHER -> "ghost"]
\* a model's "reasoning" entry: the five documented levels, an invalid one, and none
Levels == {"auto", "off", "low", "medium", "high", "max", "unset"}
\* the configured system prompt; "" when none is configured
Prompts == {"", "P:"}

\* the requested id, or the id the redirect table maps it to; "" stands for undefined
getRedirectedModelId(requested) ==
    IF requested \in DOMAIN Redirects THEN Redirects[requested] ELSE requested

\* the configured model of that id: <<>> when there is none, else <<model>>
getModelById(modelId) ==
    IF modelId \in ConfiguredIds THEN <<[id |-> modelId, type |-> ModelType[modelId]]>> ELSE <<>>

\* the model's reasoning level; "unset" when the model or its level is missing
getModelReasoning(modelId) ==
    IF modelId \in ConfiguredIds THEN config.reasoning ELSE "unset"

getSystemPrompt == config.systemPrompt

\* openaiRequest.model, undefined ("") when the body has no model
ModelOf(body) == IF Has(body, "model") THEN body.model ELSE ""

(***************************************************************************)
(* Request rewriting.                                                      *)
(***************************************************************************)
IsStr(v) == Has(v, "str")
IsArr(v) == Has(v, "arr")

\* messages.findIndex(m => m.role === 'system'): 0 when there is none
FirstSystem(msgs) ==
    IF \E i \in 1..Len(msgs) : msgs[i].role = "system"
    THEN CHOOSE i \in 1..Len(msgs) :
            /\ msgs[i].role = "system"
            /\ \A j \in 1..(i - 1) : msgs[j].role # "system"
    ELSE 0

\* variant: the prompt is prepended to every system message
CommonWithPrompt_EverySystem(openaiRequest) ==
    LET systemPrompt == getSystemPrompt
        msgs == IF Has(openaiRequest, "messages") THEN openaiRequest.messages ELSE <<>>
        hasSystemMessage == FirstSystem(msgs) # 0
    IN  IF systemPrompt = "" THEN openaiRequest
        ELSE IF hasSystemMessage
        THEN With(openaiRequest, "messages",
                  [i \in 1..Len(msgs) |->
                      IF msgs[i].role = "system"
                      THEN [role |-> "system",
                            content |-> [str |-> systemPrompt \o
                                (IF IsStr(msgs[i].content) THEN msgs[i].content.str ELSE "")]]
                      ELSE msgs[i]])
        ELSE With(openaiRequest, "messages",
                  <<[role |-> "system", content |-> [str |-> systemPrompt]]>> \o msgs)

\* request-common.js, lines 12-40: the messages after system prompt injection
CommonWithPrompt(openaiRequest) ==
    LET systemPrompt == getSystemPrompt
        msgs == IF Has(openaiRequest, "messages") THEN openaiRequest.messages ELSE <<>>
        hasSystemMessage == FirstSystem(msgs) # 0
    IN  IF systemPrompt = "" THEN openaiRequest
        ELSE IF hasSystemMessage
        THEN With(openaiRequest, "messages",
                  [i \in 1..Len(msgs) |->
                      IF msgs[i].role = "system" /\ i = FirstSystem(msgs)
                      THEN [role |-> "system",
                            content |-> [str |-> systemPrompt \o
                                (IF IsStr(msgs[i].content) THEN msgs[i].content.str ELSE "")]]
                      ELSE msgs[i]])
        ELSE With(openaiRequest, "messages",
                  <<[role |-> "system", content |-> [str |-> systemPrompt]]>> \o msgs)

\* variant: a fixed level fills reasoning_effort in only when the client sent none
CommonReasoning_KeepsClientValue(commonRequest, reasoningLevel) ==
    IF reasoningLevel = "auto" THEN commonRequest
    ELSE IF reasoningLevel \in {"low", "medium", "high"}
    THEN IF Has(commonRequest, "reasoning_effort") THEN commonRequest
         ELSE With(commonRequest, "reasoning_effort", reasoningLevel)
    ELSE Delete(commonRequest, "reasoning_effort")

\* request-common.js, lines 42-54: the reasoning_effort policy
CommonReasoning(commonRequest, reasoningLevel) ==
    IF reasoningLevel = "auto" THEN commonRequest
    ELSE IF reasoningLevel \in {"low", "medium", "high"}
    THEN With(commonRequest, "reasoning_effort", reasoningLevel)
    ELSE Delete(commonRequest, "reasoning_effort")

transformToCommon(openaiRequest) ==
    CommonReasoning(CommonWithPrompt(openaiRequest), getModelReasoning(ModelOf(openaiRequest)))

\* routes.js, lines 297-308: instructions of /v1/responses after prompt injection
ResponsesWithPrompt(openaiRequest, modelId) ==
    LET systemPrompt == getSystemPrompt
        modifiedRequest == With(openaiRequest, "model", modelId)
    IN  IF systemPrompt = "" THEN modifiedRequest
        ELSE IF Has(modifiedRequest, "instructions") /\ modifiedRequest.instructions # ""
        THEN With(modifiedRequest, "instructions", systemPrompt \o modifiedRequest.instructions)
        ELSE With(modifiedRequest, "instructions", systemPrompt)

\* variant: only off removes the field; a level that is not recognised leaves the
\* request as it is
ResponsesReasoning_InvalidAsAuto(modifiedRequest, reasoningLevel) ==
    IF reasoningLevel \in {"low", "medium", "high"}
    THEN With(modifiedRequest, "reasoning", [effort |-> reasoningLevel, summary |-> "auto"])
    ELSE IF reasoningLevel = "off" THEN Delete(modifiedRequest, "reasoning")
    ELSE modifiedRequest

\* routes.js, lines 310-323: the reasoning policy of /v1/responses
ResponsesReasoning(modifiedRequest, reasoningLevel) ==
    IF reasoningLevel = "auto" THEN modifiedRequest
    ELSE IF reasoningLevel \in {"low", "medium", "high"}
    THEN With(modifiedRequest, "reasoning", [effort |-> reasoningLevel, summary |-> "auto"])
    ELSE Delete(modifiedRequest, "reasoning")

\* the body /v1/responses forwards
ResponsesModifiedRequest(openaiRequest, modelId) ==
    ResponsesReasoning(ResponsesWithPrompt(openaiRequest, modelId), getModelReasoning(modelId))

\* routes.js, lines 443-459: system of /v1/messages after prompt injection
MessagesWithPrompt(anthropicRequest, modelId) ==
    LET systemPrompt == getSystemPrompt
        modifiedRequest == With(anthropicRequest, "model", modelId)
        block == [type |-> "text", text |-> systemPrompt]
    IN  IF systemPrompt = "" THEN modifiedRequest
        ELSE IF Has(modifiedRequest, "system") /\ IsArr(modifiedRequest.system)
        THEN With(modifiedRequest, "system", [arr |-> <<block>> \o modifiedRequest.system.arr])
        ELSE With(modifiedRequest, "system", [arr |-> <<block>>])

\* variant: medium is given a budget of 8192
budgetTokens_MediumHalved(reasoningLevel) ==
    CASE reasoningLevel = "low" -> 4096
      [] reasoningLevel = "medium" -> 8192
      [] reasoningLevel = "high" -> 24576

\* routes.js, lines 467-471
budgetTokens(reasoningLevel) ==
    CASE reasoningLevel = "low" -> 4096
      [] reasoningLevel = "medium" -> 12288
      [] reasoningLevel = "high" -> 24576

\* variant: auto is treated like off
MessagesReasoning_AutoAsOff(modifiedRequest, reasoningLevel) ==
    IF reasoningLevel \in {"low", "medium", "high"}
    THEN With(modifiedRequest, "thinking",
              [type |-> "enabled", budget_tokens |-> budgetTokens(reasoningLevel)])
    ELSE Delete(modifiedRequest, "thinking")

\* routes.js, lines 461-480: the thinking policy of /v1/messages
MessagesReasoning(modifiedRequest, reasoningLevel) ==
    IF reasoningLevel = "auto" THEN modifiedRequest
    ELSE IF reasoningLevel \in {"low", "medium", "high"}
    THEN With(modifiedRequest, "thinking",
              [type |-> "enabled", budget_tokens |-> budgetTokens(reasoningLevel)])
    ELSE Delete(modifiedRequest, "thinking")

\* the body /v1/messages forwards
MessagesModifiedRequest(anthropicRequest, modelId) ==
    MessagesReasoning(MessagesWithPrompt(anthropicRequest, modelId), getModelReasoning(modelId))

\* variant: the client body is forwarded as it came
CountTokensModifiedRequest_AsReceived(anthropicRequest, modelId) == anthropicRequest

\* routes.js, line 598: the body /v1/messages/count_tokens forwards
CountTokensModifiedRequest(anthropicRequest, modelId) ==
    With(anthropicRequest, "model", modelId)

\* routes.js, lines 130 and 143: what /v1/chat/completions sends to a common model
CommonOutbound(openaiRequest, modelId) ==
    transformToCommon(With(openaiRequest, "model", modelId))

\* the outbound body of rewriting `kind` for the client body `body`
Outbound(kind, body) ==
    LET modelId == getRedirectedModelId(ModelOf(body))
    IN  CASE kind = "common" -> CommonOutbound(body, modelId)
          [] kind = "responses" -> ResponsesModifiedRequest(body, modelId)
          [] kind = "messages" -> MessagesModifiedRequest(body, modelId)

(***************************************************************************)
(* Credential manager (auth.js).  A credential is the string that goes in  *)
(* the authorization header; "" stands for null/undefined.                 *)
(***************************************************************************)
\* lifetime of a refreshed access token, in clock units
TokenLifetime == 2
\* a cached token is refreshed once the clock is within this margin of its expiry
SafetyMargin == 1

NoCache == [token |-> "", expiresAt |-> 0]

\* whether the cached access token must be refreshed before it is used
NeedsRefresh == cache.token = "" \/ now >= cache.expiresAt - SafetyMargin

\* variant: the client's header is preferred to the configured sources
getApiKey_ClientFirst(clientAuthorization) ==
    IF clientAuthorization # "" THEN [kind |-> "value", value |-> clientAuthorization]
    ELSE IF config.fixedKey # "" THEN [kind |-> "value", value |-> "Bearer " \o config.fixedKey]
    ELSE IF config.refreshToken # ""
    THEN IF NeedsRefresh THEN [kind |-> "refresh", value |-> ""]
         ELSE [kind |-> "value", value |-> "Bearer " \o cache.token]
    ELSE [kind |-> "throw", value |-> ""]

\* variant: a cached access token is returned as long as there is one, whatever the
\* clock says
getApiKey_Reactive(clientAuthorization) ==
    IF config.fixedKey # "" THEN [kind |-> "value", value |-> "Bearer " \o config.fixedKey]
    ELSE IF config.refreshToken # ""
    THEN IF cache.token = "" THEN [kind |-> "refresh", value |-> ""]
         ELSE [kind |-> "value", value |-> "Bearer " \o cache.token]
    ELSE IF clientAuthorization # "" THEN [kind |-> "value", value |-> clientAuthorization]
    ELSE [kind |-> "throw", value |-> ""]

\* getApiKey(clientAuthorization) up to its first await: the credential it returns
\* at once, that it throws, or that it has to wait for a refresh
getApiKey(clientAuthorization) ==
    IF config.fixedKey # "" THEN [kind |-> "value", value |-> "Bearer " \o config.fixedKey]
    ELSE IF config.refreshToken # ""
    THEN IF NeedsRefresh THEN [kind |-> "refresh", value |-> ""]
         ELSE [kind |-> "value", value |-> "Bearer " \o cache.token]
    ELSE IF clientAuthorization # "" THEN [kind |-> "value", value |-> clientAuthorization]
    ELSE [kind |-> "throw", value |-> ""]

\* variant: no guard, every resolver that needs a refresh starts its own
RefreshToAwait_NoGuard == Len(tokenCalls) + 1

\* the single-flight guard: the refresh in flight when there is one, else a new call
RefreshToAwait == IF refreshPromise # 0 THEN refreshPromise ELSE Len(tokenCalls) + 1

\* the access token the token endpoint issues on its n-th call
IssuedToken(n) == "tok" \o ToString(n)

\* variant: a failed refresh fails the resolution even when a token is cached
AfterRefresh_NoReuse(n, ok) ==
    IF ok THEN [kind |-> "value", value |-> "Bearer " \o IssuedToken(n)]
    ELSE [kind |-> "throw", value |-> ""]

\* what getApiKey gives the resolvers waiting for refresh n once it has settled
AfterRefresh(n, ok) ==
    IF ok THEN [kind |-> "value", value |-> "Bearer " \o IssuedToken(n)]
    ELSE IF cache.token # "" /\ now < cache.expiresAt
    THEN [kind |-> "value", value |-> "Bearer " \o cache.token]
    ELSE [kind |-> "throw", value |-> ""]

InFlight == {n \in 1..Len(tokenCalls) : tokenCalls[n].state = "inflight"}

(***************************************************************************)
(* The four POST handlers (routes.js).  JavaScript runs a handler without  *)
(* interruption up to its next await, so an action is one such stretch.    *)
(***************************************************************************)
Tasks == 1..NumTasks
Routes == {"chat", "responses", "messages", "count_tokens"}
AllTypes == {"anthropic", "openai", "common"}
\* the base_url of each endpoint of the config.json that ships with the program
BaseUrl == [anthropic |-> "https://up/v1/messages", openai |-> "https://up/v1/responses",
            common |-> "https://up/v1/chat/completions"]
\* the endpoints are the operator's to set: the shipped ones, or an Anthropic
\* endpoint served under another path
BaseUrlChoices == {BaseUrl, [BaseUrl EXCEPT !.anthropic = "https://gw/anthropic"]}

\* the endpoint of config.json for that type: <<>> when there is none
getEndpointByType(type) ==
    IF type \in config.endpoints THEN <<[type |-> type, base_url |-> config.baseUrls[type]]>>
    ELSE <<>>

\* String.prototype.replace with a string pattern: the first occurrence is replaced
ReplaceFirst(s, pattern, replacement) ==
    LET hits == {i \in 1..(Len(s) - Len(pattern) + 1) :
                    SubSeq(s, i, i + Len(pattern) - 1) = pattern}
        first == CHOOSE i \in hits : \A j \in hits : i <= j
    IN  IF hits = {} THEN s
        ELSE SubSeq(s, 1, first - 1) \o replacement \o SubSeq(s, first + Len(pattern), Len(s))

\* variant: /v1/messages/count_tokens does not check the type
RequiredType_CountTokensUnchecked(route) ==
    CASE route = "responses" -> "openai"
      [] route = "messages" -> "anthropic"
      [] OTHER -> ""

\* the model type a direct route insists on; "" for /v1/chat/completions
RequiredType(route) ==
    CASE route = "responses" -> "openai"
      [] route \in {"messages", "count_tokens"} -> "anthropic"
      [] OTHER -> ""

RoutePath(route) ==
    CASE route = "chat" -> "/v1/chat/completions"
      [] route = "responses" -> "/v1/responses"
      [] route = "messages" -> "/v1/messages"
      [] OTHER -> "/v1/messages/count_tokens"

\* variant: the 404 names the id as the client wrote it
Rejection_NamesRequestedId(route, body) ==
    LET modelId == getRedirectedModelId(ModelOf(body))
        found == getModelById(modelId)
        model == found[1]
    IN  IF modelId = "" THEN <<[status |-> 400, json |-> [error |-> "model is required"]]>>
        ELSE IF found = <<>>
        THEN <<[status |-> 404, json |-> [error |-> "Model " \o ModelOf(body) \o " not found"]]>>
        ELSE IF RequiredType(route) # "" /\ model.type # RequiredType(route)
        THEN <<[status |-> 400,
                json |-> [error |-> "Invalid endpoint type",
                          message |-> RoutePath(route) \o " endpoint only supports "
                              \o RequiredType(route) \o " type endpoints, current model "
                              \o modelId \o " is " \o model.type \o " type"]]>>
        ELSE IF getEndpointByType(model.type) = <<>>
        THEN <<[status |-> 500,
                json |-> [error |-> "Endpoint type " \o model.type \o " not found"]]>>
        ELSE <<>>

\* variant: the endpoint is looked up before the type of the model is compared with
\* the type the route serves
Rejection_EndpointFirst(route, body) ==
    LET modelId == getRedirectedModelId(ModelOf(body))
        found == getModelById(modelId)
        model == found[1]
    IN  IF modelId = "" THEN <<[status |-> 400, json |-> [error |-> "model is required"]]>>
        ELSE IF found = <<>>
        THEN <<[status |-> 404, json |-> [error |-> "Model " \o modelId \o " not found"]]>>
        ELSE IF getEndpointByType(model.type) = <<>>
        THEN <<[status |-> 500,
                json |-> [error |-> "Endpoint type " \o model.type \o " not found"]]>>
        ELSE IF RequiredType(route) # "" /\ model.type # RequiredType(route)
        THEN <<[status |-> 400,
                json |-> [error |-> "Invalid endpoint type",
                          message |-> RoutePath(route) \o " endpoint only supports "
                              \o RequiredType(route) \o " type endpoints, current model "
                              \o modelId \o " is " \o model.type \o " type"]]>>
        ELSE <<>>

\* the checks before the credential is resolved: <<>> when all pass, else the
\* response of the first one that fails
Rejection(route, body) ==
    LET modelId == getRedirectedModelId(ModelOf(body))
        found == getModelById(modelId)
        model == found[1]
    IN  IF modelId = "" THEN <<[status |-> 400, json |-> [error |-> "model is required"]]>>
        ELSE IF found = <<>>
        THEN <<[status |-> 404, json |-> [error |-> "Model " \o modelId \o " not found"]]>>
        ELSE IF RequiredType(route) # "" /\ model.type # RequiredType(route)
        THEN <<[status |-> 400,
                json |-> [error |-> "Invalid endpoint type",
                          message |-> RoutePath(route) \o " endpoint only supports "
                              \o RequiredType(route) \o " type endpoints, current model "
                              \o modelId \o " is " \o model.type \o " type"]]>>
        ELSE IF getEndpointByType(model.type) = <<>>
        THEN <<[status |-> 500,
                json |-> [error |-> "Endpoint type " \o model.type \o " not found"]]>>
        ELSE <<>>

\* the client credential handed to getApiKey
ClientAuthorization(route, headers) ==
    IF route = "chat" \/ headers.authorization # "" THEN headers.authorization
    ELSE IF headers.xapikey # "" THEN "Bearer " \o headers.xapikey
    ELSE ""

\* request-common.js, line 68: the authorization header getCommonHeaders builds
CommonAuthorization(authHeader) == IF authHeader # "" THEN authHeader ELSE ""

\* the canonical request in the upstream's dialect (request-anthropic.js,
\* request-openai.js): the model id and the stream flag are carried over
transformToAnthropic(openaiRequest) ==
    MessagesReasoning([k \in DOMAIN openaiRequest \cap {"model", "stream"} |-> openaiRequest[k]],
                      getModelReasoning(ModelOf(openaiRequest)))
transformToOpenAI(openaiRequest) ==
    ResponsesReasoning([k \in DOMAIN openaiRequest \cap {"model", "stream"} |-> openaiRequest[k]],
                       getModelReasoning(ModelOf(openaiRequest)))

IsTrue(o, f) == Has(o, f) /\ o[f] = TRUE

\* variant: the flag is on unless the client turned streaming off
IsStreamingHeader_UnlessFalse(request) == ~(Has(request, "stream") /\ request.stream = FALSE)

\* routes.js, lines 137 and 440: the isStreaming argument of getAnthropicHeaders
IsStreamingHeader(request) == IsTrue(request, "stream")

\* the upstream call a handler issues once it holds the credential authHeader;
\* streamingHeader is <<the isStreaming flag the headers were built with>>, <<>> for
\* the header builders that take none
UpstreamCall(route, body, authHeader) ==
    LET modelId == getRedirectedModelId(ModelOf(body))
        type == ModelType[modelId]
        base == getEndpointByType(type)[1].base_url
        requestWithRedirectedModel == With(body, "model", modelId)
        transformedRequest ==
            CASE type = "anthropic" -> transformToAnthropic(requestWithRedirectedModel)
              [] type = "openai" -> transformToOpenAI(requestWithRedirectedModel)
              [] OTHER -> transformToCommon(requestWithRedirectedModel)
    IN  CASE route = "chat" ->
                [url |-> base,
                 authorization |-> IF type = "common" THEN CommonAuthorization(authHeader)
                                   ELSE authHeader,
                 body |-> transformedRequest,
                 streaming |-> IsTrue(transformedRequest, "stream"),
                 streamingHeader |-> IF type = "anthropic" THEN <<IsStreamingHeader(body)>>
                                     ELSE <<>>]
          [] route = "responses" ->
                [url |-> base, authorization |-> authHeader,
                 body |-> ResponsesModifiedRequest(body, modelId),
                 streaming |-> IsTrue(body, "stream"),
                 streamingHeader |-> <<>>]
          [] route = "messages" ->
                [url |-> base, authorization |-> authHeader,
                 body |-> MessagesModifiedRequest(body, modelId),
                 streaming |-> IsTrue(body, "stream"),
                 streamingHeader |-> <<IsStreamingHeader(body)>>]
          [] OTHER ->
                [url |-> ReplaceFirst(base, "/v1/messages", "/v1/messages/count_tokens"),
                 authorization |-> authHeader,
                 body |-> CountTokensModifiedRequest(body, modelId),
                 streaming |-> FALSE,
                 streamingHeader |-> <<FALSE>>]

\* res.status(status).json(body): the handler returns
Respond(tr, status, body) ==
    [tr EXCEPT !.pc = "done", !.sent = Append(@, [status |-> status, json |-> body])]

\* variant: a failed resolution goes on with an empty credential
AfterKey_EmptyBearer(tr, key) ==
    [tr EXCEPT !.pc = "awaitUpstream", !.key = "resolved", !.authHeader = key.value,
               !.calls = Append(@, UpstreamCall(tr.route, tr.body, key.value))]

\* the handler from the point where getApiKey has settled with `key`
AfterKey(tr, key) ==
    IF key.kind = "throw"
    THEN Respond([tr EXCEPT !.key = "failed"], 500,
                 [error |-> "API key not available",
                  message |-> "Failed to get or refresh API key. Please check server logs."])
    ELSE [tr EXCEPT !.pc = "awaitUpstream", !.key = "resolved", !.authHeader = key.value,
                    !.calls = Append(@, UpstreamCall(tr.route, tr.body, key.value))]

\* the handler from its entry to its first await
Entered(tr, key) ==
    LET rejection == Rejection(tr.route, tr.body)
    IN  IF rejection # <<>> THEN Respond(tr, rejection[1].status, rejection[1].json)
        ELSE IF key.kind = "refresh"
        THEN [tr EXCEPT !.pc = "awaitKey", !.awaiting = RefreshToAwait]
        ELSE AfterKey(tr, key)

(***************************************************************************)
(* Non-streaming response adapter (routes.js, convertResponseToChatCompletion). *)
(* The result is [threw |-> TRUE] when the function throws, else           *)
(* [threw |-> FALSE, value |-> the chat completion].                       *)
(***************************************************************************)
\* JSON null, or any value that is not an object
JsonNull == [jsonNull |-> TRUE]

\* resp.id.replace(/^resp_/, 'chatcmpl-')
ReplaceRespPrefix(id) ==
    IF Len(id) >= 5 /\ SubSeq(id, 1, 5) = "resp_"
    THEN "chatcmpl-" \o SubSeq(id, 6, Len(id))
    ELSE id

\* seq.find(pred): <<>> when no element satisfies it, else <<the first one>>
RECURSIVE FirstMessage(_)
FirstMessage(items) ==
    IF items = <<>> THEN <<>>
    ELSE IF Has(Head(items), "type") /\ Head(items).type = "message" THEN <<Head(items)>>
    ELSE FirstMessage(Tail(items))

\* variant: the text of every part is joined, whatever its type
RECURSIVE JoinOutputText_AllParts(_)
JoinOutputText_AllParts(parts) ==
    IF parts = <<>> THEN ""
    ELSE (IF Has(Head(parts), "text") THEN Head(parts).text ELSE "")
         \o JoinOutputText_AllParts(Tail(parts))

\* parts.filter(c => c.type === 'output_text').map(c => c.text).join('')
RECURSIVE JoinOutputText(_)
JoinOutputText(parts) ==
    IF parts = <<>> THEN ""
    ELSE (IF Has(Head(parts), "type") /\ Head(parts).type = "output_text" /\ Has(Head(parts), "text")
          THEN Head(parts).text ELSE "") \o JoinOutputText(Tail(parts))

UsageCounter(resp, name) ==
    IF Has(resp, "usage") /\ Has(resp.usage, name) THEN resp.usage[name] ELSE 0

convertResponseToChatCompletion(resp) ==
    LET output == IF Has(resp, "output") THEN resp.output ELSE [arr |-> <<>>]
        found == FirstMessage(output.arr)
        outputMsg == found[1]
        hasContent == found # <<>> /\ Has(outputMsg, "content")
        content == IF hasContent THEN JoinOutputText(outputMsg.content.arr) ELSE ""
    IN  IF resp = JsonNull \/ ~IsArr(output) \/ (hasContent /\ ~IsArr(outputMsg.content))
        THEN [threw |-> TRUE]
        ELSE [threw |-> FALSE,
              value |->
                [id |-> IF Has(resp, "id") /\ resp.id # "" THEN ReplaceRespPrefix(resp.id)
                        ELSE "chatcmpl-" \o ToString(now),
                 object |-> "chat.completion",
                 created |-> IF Has(resp, "created_at") /\ resp.created_at # 0
                             THEN resp.created_at ELSE now,
                 model |-> IF Has(resp, "model") /\ resp.model # "" THEN resp.model
                           ELSE "unknown-model",
                 choices |-> <<[index |-> 0,
                                message |-> [role |-> IF found # <<>> /\ Has(outputMsg, "role")
                                                          /\ outputMsg.role # ""
                                                      THEN outputMsg.role ELSE "assistant",
                                             content |-> content],
                                finish_reason |-> IF Has(resp, "status") /\ resp.status = "completed"
                                                  THEN "stop" ELSE "unknown"]>>,
                 usage |-> [prompt_tokens |-> UsageCounter(resp, "input_tokens"),
                            completion_tokens |-> UsageCounter(resp, "output_tokens"),
                            total_tokens |-> UsageCounter(resp, "total_tokens")]]]

(***************************************************************************)
(* The upstream's answers and the rest of the handlers.                    *)
(***************************************************************************)
\* the statuses and bodies of a non-2xx upstream answer
ErrorStatuses == {401, 503}
ErrorTexts == {"", "{\"error\":\"denied\"}"}
\* the JSON bodies of a 2xx upstream answer; "unparsable" is one response.json() rejects
SampleResponse ==
    [id |-> "resp_1", status |-> "completed",
     output |-> [arr |-> <<[type |-> "message", role |-> "assistant",
                            content |-> [arr |-> <<[type |-> "output_text", text |-> "hi"]>>]]>>]]
\* bodies that are not of that shape: no output list, no message among the output
\* items, an output that is no list; and the body null
NoOutputResponse == [id |-> "resp_2", status |-> "failed"]
NoMessageResponse ==
    [id |-> "resp_3", status |-> "completed", output |-> [arr |-> <<[type |-> "reasoning"]>>]]
OutputNotListResponse == [id |-> "resp_4", status |-> "completed", output |-> [str |-> "x"]]
OkBodies ==
    {[parsed |-> TRUE, data |-> d] :
        d \in {SampleResponse, NoOutputResponse, NoMessageResponse, OutputNotListResponse,
               JsonNull}}
    \cup {[parsed |-> FALSE, data |-> JsonNull]}
\* the events of an upstream event stream: a block opens, a text delta for a block,
\* a block closes, the terminal event.  Block 1 is never opened, so its delta is an
\* anomaly wherever it comes; "odd" is a terminal status no table entry maps.
UpstreamEvents ==
    {[type |-> "open", index |-> 0],
     [type |-> "delta", index |-> 0, text |-> "a"],
     [type |-> "delta", index |-> 0, text |-> "b"],
     [type |-> "delta", index |-> 1, text |-> "a"],
     [type |-> "close", index |-> 0],
     [type |-> "completed", id |-> "up9", status |-> "completed"],
     [type |-> "completed", id |-> "up9", status |-> "odd"]}

TaskModelId(tr) == getRedirectedModelId(ModelOf(tr.body))
TaskModelType(tr) == ModelType[TaskModelId(tr)]

\* isDevMode() of config.js
isDevMode == config.devMode

\* server.js, lines 101-108: the error handling middleware, reached by an exception
\* raised outside the handlers; JSON.stringify leaves out a member that is undefined
UnhandledError(tr, message) ==
    Respond(tr, 500,
            IF isDevMode THEN [error |-> "Internal server error", message |-> message]
            ELSE [error |-> "Internal server error"])

\* variant: the outermost catch logs the exception and sends nothing
InternalError_Silent(tr, message) == [tr EXCEPT !.pc = "done"]

\* the outermost catch of a handler
InternalError(tr, message) ==
    Respond(tr, 500, [error |-> "Internal server error", message |-> message])

\* variant: every upstream failure is answered 502
RelayError_Generic(tr, status, errorText) ==
    Respond(tr, 502, [error |-> "Endpoint returned " \o ToString(status),
                      details |-> errorText])

\* variant: a refused call is issued again
RelayError_Retries(tr, status, errorText) ==
    [tr EXCEPT !.calls = Append(@, UpstreamCall(tr.route, tr.body, tr.authHeader))]

\* routes.js, lines 166-173: a non-2xx upstream answer
RelayError(tr, status, errorText) ==
    Respond(tr, status, [error |-> "Endpoint returned " \o ToString(status),
                         details |-> errorText])

\* variant: a conversion that throws fails the request
RelayJson_NoFallback(tr, reply) ==
    IF ~reply.parsed THEN InternalError(tr, "invalid json response body")
    ELSE IF tr.route = "chat" /\ TaskModelType(tr) = "openai"
    THEN LET converted == convertResponseToChatCompletion(reply.data)
         IN  IF converted.threw THEN InternalError(tr, "Invalid response object")
             ELSE Respond(tr, 200, converted.value)
    ELSE Respond(tr, 200, reply.data)

\* routes.js, lines 214-231: a 2xx answer to a non-streaming request
RelayJson(tr, reply) ==
    IF ~reply.parsed THEN InternalError(tr, "invalid json response body")
    ELSE IF tr.route = "chat" /\ TaskModelType(tr) = "openai"
    THEN LET converted == convertResponseToChatCompletion(reply.data)
         IN  IF converted.threw THEN Respond(tr, 200, reply.data)
             ELSE Respond(tr, 200, converted.value)
    ELSE Respond(tr, 200, reply.data)

(***************************************************************************)
(* Streaming response transformer (response-anthropic.js,                  *)
(* response-openai.js): the translation state of one streaming call and    *)
(* the step it takes for one upstream event.                               *)
(***************************************************************************)
\* new AnthropicResponseTransformer(modelId, requestId) / new
\* OpenAIResponseTransformer(modelId, requestId): no block yet, not finished
NewTransformer(modelId, requestId) ==
    [responseId |-> requestId, modelId |-> modelId, contentBlocks |-> <<>>,
     finishReason |-> ""]

\* the canonical finish reason of an upstream terminal status
FinishReason(status) ==
    CASE status \in {"completed", "end_turn"} -> "stop"
      [] status \in {"incomplete", "max_tokens"} -> "length"
      [] OTHER -> "unknown"

\* variant: a delta chunk carries the text accumulated so far
DeltaChunk_Cumulative(state, text) ==
    [id |-> state.responseId, object |-> "chat.completion.chunk", model |-> state.modelId,
     content |-> state.contentBlocks[0].accumulatedText \o text, finish_reason |-> ""]

\* a canonical chunk: a text delta, or the finish chunk
DeltaChunk(state, text) ==
    [id |-> state.responseId, object |-> "chat.completion.chunk", model |-> state.modelId,
     content |-> text, finish_reason |-> ""]
FinishChunk(state, reason) ==
    [id |-> state.responseId, object |-> "chat.completion.chunk", model |-> state.modelId,
     content |-> "", finish_reason |-> reason]

\* whether block `index` has been opened and is not closed yet
IsOpen(state, index) ==
    Has(state.contentBlocks, index) /\ ~state.contentBlocks[index].closed

\* variant: a delta is emitted whether or not its block is open
TransformEvent_EmitsUnopened(state, event) ==
    LET dropped == [state |-> state, chunks |-> <<>>]
    IN  IF state.finishReason # "" THEN dropped
        ELSE CASE event.type = "open" ->
                    IF Has(state.contentBlocks, event.index) THEN dropped
                    ELSE [state |-> [state EXCEPT !.contentBlocks =
                                        With(@, event.index,
                                             [accumulatedText |-> "", closed |-> FALSE])],
                          chunks |-> <<>>]
               [] event.type = "delta" ->
                    [state |-> state, chunks |-> <<DeltaChunk(state, event.text)>>]
               [] event.type = "close" ->
                    IF ~IsOpen(state, event.index) THEN dropped
                    ELSE [state |-> [state EXCEPT !.contentBlocks[event.index].closed = TRUE],
                          chunks |-> <<>>]
               [] event.type = "completed" ->
                    [state |-> [state EXCEPT !.finishReason = FinishReason(event.status)],
                     chunks |-> <<FinishChunk(state, FinishReason(event.status))>>]
               [] OTHER -> dropped

\* one upstream event: the state after it and the canonical chunks emitted for it;
\* an event that is out of order leaves the state as it is and emits nothing
TransformEvent(state, event) ==
    LET dropped == [state |-> state, chunks |-> <<>>]
    IN  IF state.finishReason # "" THEN dropped
        ELSE CASE event.type = "open" ->
                    IF Has(state.contentBlocks, event.index) THEN dropped
                    ELSE [state |-> [state EXCEPT !.contentBlocks =
                                        With(@, event.index,
                                             [accumulatedText |-> "", closed |-> FALSE])],
                          chunks |-> <<>>]
               [] event.type = "delta" ->
                    IF ~IsOpen(state, event.index) THEN dropped
                    ELSE [state |-> [state EXCEPT !.contentBlocks[event.index].accumulatedText =
                                        @ \o event.text],
                          chunks |-> <<DeltaChunk(state, event.text)>>]
               [] event.type = "close" ->
                    IF ~IsOpen(state, event.index) THEN dropped
                    ELSE [state |-> [state EXCEPT !.contentBlocks[event.index].closed = TRUE],
                          chunks |-> <<>>]
               [] event.type = "completed" ->
                    [state |-> [state EXCEPT !.finishReason = FinishReason(event.status)],
                     chunks |-> <<FinishChunk(state, FinishReason(event.status))>>]
               [] OTHER -> dropped

\* variant: what is written for a chunk goes ahead of what was written before
WriteChunk_NewestFirst(tr, chunk) ==
    LET step == TransformEvent(tr.transformer[1], chunk)
        emitted == IF tr.transformer = <<>> THEN <<chunk>> ELSE step.chunks
    IN  [tr EXCEPT !.upstream = Append(@, chunk),
                   !.written = emitted \o @,
                   !.origin = [i \in 1..Len(emitted) |-> Len(tr.upstream) + 1] \o @,
                   !.transformer = IF @ = <<>> THEN @ ELSE <<step.state>>]

\* variant: the response id is named anew for every chunk
WriteChunk_FreshId(tr, chunk) ==
    LET fresh == [tr.transformer[1] EXCEPT !.responseId = "chatcmpl-" \o ToString(now)]
        step == TransformEvent(fresh, chunk)
        emitted == IF tr.transformer = <<>> THEN <<chunk>> ELSE step.chunks
    IN  [tr EXCEPT !.upstream = Append(@, chunk),
                   !.written = @ \o emitted,
                   !.origin = @ \o [i \in 1..Len(emitted) |-> Len(tr.upstream) + 1],
                   !.transformer = IF @ = <<>> THEN @ ELSE <<step.state>>]

\* routes.js, lines 182-212: the chunks written for one upstream chunk.  The common
\* type and the direct routes write the chunk as it is; the anthropic and openai
\* types of /v1/chat/completions write what the transformer yields for it.
WriteChunk(tr, chunk) ==
    LET step == TransformEvent(tr.transformer[1], chunk)
        emitted == IF tr.transformer = <<>> THEN <<chunk>> ELSE step.chunks
    IN  [tr EXCEPT !.upstream = Append(@, chunk),
                   !.written = @ \o emitted,
                   !.origin = @ \o [i \in 1..Len(emitted) |-> Len(tr.upstream) + 1],
                   !.transformer = IF @ = <<>> THEN @ ELSE <<step.state>>]

\* variant: the chat handler builds a transformer whatever the type
OpenStream_AlwaysTransforms(tr) ==
    [tr EXCEPT !.pc = "streaming", !.streaming = TRUE,
               !.transformer =
                   IF tr.route = "chat"
                   THEN <<NewTransformer(TaskModelId(tr), "chatcmpl-" \o ToString(now))>>
                   ELSE <<>>]

\* routes.js, lines 177-201: the response is an event stream; the chat handler
\* builds a transformer for the anthropic and openai types
OpenStream(tr) ==
    [tr EXCEPT !.pc = "streaming", !.streaming = TRUE,
               !.transformer =
                   IF tr.route = "chat" /\ TaskModelType(tr) # "common"
                   THEN <<NewTransformer(TaskModelId(tr), "chatcmpl-" \o ToString(now))>>
                   ELSE <<>>]

(***************************************************************************)
(* Actions of the request handling.                                        *)
(***************************************************************************)
NoTask ==
    [pc |-> "absent", route |-> "chat", body |-> <<>>,
     headers |-> [authorization |-> "", xapikey |-> ""],
     key |-> "none", authHeader |-> "", awaiting |-> 0, calls |-> <<>>, sent |-> <<>>,
     streaming |-> FALSE, upstream |-> <<>>, written |-> <<>>, ends |-> 0, broke |-> FALSE,
     transformer |-> <<>>, origin |-> <<>>, gone |-> FALSE, goneAt |-> 0]

\* a request that has arrived and whose handler has not run yet
NewTask(route, body, headers) ==
    [NoTask EXCEPT !.pc = "received", !.route = route, !.body = body, !.headers = headers]

\* the handler of request t runs from its entry to its first await: the checks, then
\* getApiKey, which returns, throws, joins the refresh in flight or starts one
Start(t) ==
    LET tr == task[t]
        key == getApiKey(ClientAuthorization(tr.route, tr.headers))
        next == Entered(tr, key)
        starts == next.pc = "awaitKey" /\ next.awaiting > Len(tokenCalls)
    IN  /\ server.phase = "listening"
        /\ tr.pc = "received" /\ tr.route \in Routes /\ ~Has(tr.body, "unparsable")
        /\ starts => Len(tokenCalls) < MaxRefreshes
        /\ task' = [task EXCEPT ![t] = next]
        /\ tokenCalls' = IF starts THEN Append(tokenCalls, [state |-> "inflight", by |-> t])
                         ELSE tokenCalls
        /\ refreshPromise' = IF starts THEN next.awaiting ELSE refreshPromise
        /\ UNCHANGED <<config, feed, server, cache, now, xvars>>

\* config.models: the models of config.json in the order of the file
ConfigModels ==
    <<[id |-> "claude", type |-> "anthropic"], [id |-> "gpt", type |-> "openai"],
      [id |-> "glm", type |-> "common"]>>

\* variant: the newest entry of the configuration comes first
ListModels_Reversed ==
    [object |-> "list",
     data |-> [i \in 1..Len(ConfigModels) |->
                  LET model == ConfigModels[Len(ConfigModels) + 1 - i]
                  IN  [id |-> model.id, object |-> "model", created |-> now,
                       owned_by |-> model.type, permission |-> <<>>, root |-> model.id,
                       parent |-> JsonNull]]]

\* routes.js, lines 57-71: the body of the answer to GET /v1/models
ListModels ==
    [object |-> "list",
     data |-> [i \in 1..Len(ConfigModels) |->
                  LET model == ConfigModels[i]
                  IN  [id |-> model.id, object |-> "model", created |-> now,
                       owned_by |-> model.type, permission |-> <<>>, root |-> model.id,
                       parent |-> JsonNull]]]

\* GET /v1/models: the handler answers in one stretch
GetModels(t) ==
    /\ server.phase = "listening"
    /\ task[t].pc = "received" /\ task[t].route = "models"
    /\ task' = [task EXCEPT ![t] = Respond(@, 200, ListModels)]
    /\ UNCHANGED <<config, feed, server, cache, now, refreshPromise, tokenCalls, xvars>>

\* express.json() rejects a body that is not JSON: the handler does not run and the
\* error handling middleware answers
BodyParserFails(t) ==
    /\ server.phase = "listening"
    /\ task[t].pc = "received" /\ Has(task[t].body, "unparsable")
    /\ task' = [task EXCEPT ![t] = UnhandledError(@, "Unexpected token")]
    /\ UNCHANGED <<config, feed, server, cache, now, refreshPromise, tokenCalls, xvars>>

\* refresh n settles; every resolver awaiting it continues in the same turn
Settle(n, ok) ==
    /\ n \in InFlight
    /\ tokenCalls' = [tokenCalls EXCEPT ![n].state = IF ok THEN "ok" ELSE "failed"]
    /\ cache' = IF ok THEN [token |-> IssuedToken(n), expiresAt |-> now + TokenLifetime]
                ELSE cache
    /\ refreshPromise' = IF refreshPromise = n THEN 0 ELSE refreshPromise
    /\ task' = [t \in Tasks |->
                  IF task[t].pc = "awaitKey" /\ task[t].awaiting = n
                  THEN AfterKey(task[t], AfterRefresh(n, ok))
                  ELSE task[t]]
    /\ UNCHANGED <<config, feed, server, now, xvars>>

RefreshSucceeds == \E n \in 1..Len(tokenCalls) : Settle(n, TRUE)
RefreshFails == \E n \in 1..Len(tokenCalls) : Settle(n, FALSE)

\* time passes; the clock is read by getApiKey, by the chat handler when it names a
\* transformer's response id and, for a missing id, by the response adapter, so it
\* is advanced only while a request has yet to resolve its credential or has a
\* translated stream ahead of it or under way
Tick ==
    /\ now < MaxTime
    /\ \/ /\ config.refreshToken # ""
          /\ \E t \in Tasks : task[t].pc \in {"received", "awaitKey"}
       \/ \E t \in Tasks :
             /\ task[t].pc \in {"awaitUpstream", "streaming"}
             /\ task[t].calls[1].streaming
             /\ task[t].route = "chat" /\ TaskModelType(task[t]) # "common"
    /\ now' = now + 1
    /\ UNCHANGED <<config, feed, server, task, cache, refreshPromise, tokenCalls, xvars>>

\* fetch rejects: the outermost catch answers
UpstreamUnreachable(t) ==
    /\ task[t].pc = "awaitUpstream"
    /\ task' = [task EXCEPT ![t] = InternalError(@, "fetch failed")]
    /\ UNCHANGED <<config, feed, server, cache, now, refreshPromise, tokenCalls, xvars>>

\* the upstream answers with a non-2xx status
UpstreamRefuses(t) ==
    /\ task[t].pc = "awaitUpstream"
    /\ \E status \in ErrorStatuses, errorText \in ErrorTexts :
          task' = [task EXCEPT ![t] =
                      RelayError([@ EXCEPT !.upstream = <<[status |-> status, text |-> errorText]>>],
                                 status, errorText)]
    /\ UNCHANGED <<config, feed, server, cache, now, refreshPromise, tokenCalls, xvars>>

\* the upstream answers 2xx to a non-streaming call
UpstreamAnswers(t) ==
    /\ task[t].pc = "awaitUpstream" /\ ~task[t].calls[1].streaming
    /\ \E reply \in OkBodies :
          task' = [task EXCEPT ![t] = RelayJson([@ EXCEPT !.upstream = <<reply>>], reply)]
    /\ UNCHANGED <<config, feed, server, cache, now, refreshPromise, tokenCalls, xvars>>

\* the upstream answers 2xx to a streaming call: the event-stream headers are set
StreamOpens(t) ==
    /\ task[t].pc = "awaitUpstream" /\ task[t].calls[1].streaming
    /\ task' = [task EXCEPT ![t] = OpenStream(@)]
    /\ UNCHANGED <<config, feed, server, cache, now, refreshPromise, tokenCalls, xvars>>

\* the next upstream chunk arrives and is written to the client
StreamChunk(t) ==
    /\ task[t].pc = "streaming" /\ Len(task[t].upstream) < Len(feed)
    /\ task' = [task EXCEPT ![t] = WriteChunk(@, feed[Len(task[t].upstream) + 1])]
    /\ UNCHANGED <<config, feed, server, cache, now, refreshPromise, tokenCalls, xvars>>

\* the upstream stream completes: res.end()
StreamEnds(t) ==
    /\ task[t].pc = "streaming" /\ Len(task[t].upstream) = Len(feed)
    /\ task' = [task EXCEPT ![t].pc = "done", ![t].ends = @ + 1]
    /\ UNCHANGED <<config, feed, server, cache, now, refreshPromise, tokenCalls, xvars>>

\* variant: the loop has no catch of its own and the outermost catch answers
StreamBreaks_OuterCatch(t) ==
    /\ task[t].pc = "streaming"
    /\ task' = [task EXCEPT ![t] = InternalError([@ EXCEPT !.broke = TRUE], "terminated")]
    /\ UNCHANGED <<config, feed, server, cache, now, refreshPromise, tokenCalls, xvars>>

\* the upstream stream fails: the catch around the loop calls res.end()
StreamBreaks(t) ==
    /\ task[t].pc = "streaming"
    /\ task' = [task EXCEPT ![t].pc = "done", ![t].ends = @ + 1, ![t].broke = TRUE]
    /\ UNCHANGED <<config, feed, server, cache, now, refreshPromise, tokenCalls, xvars>>

\* the client closes its connection while the response is streamed to it; goneAt is
\* the number of upstream chunks read by then.  No handler listens for the close
\* and res.write on a closed connection does not throw, so the loop goes on.
ClientDisconnects(t) ==
    /\ task[t].pc = "streaming" /\ ~task[t].gone
    /\ task' = [task EXCEPT ![t].gone = TRUE, ![t].goneAt = Len(task[t].upstream)]
    /\ UNCHANGED <<config, feed, server, cache, now, refreshPromise, tokenCalls, xvars>>

Next ==
    \/ \E t \in Tasks : GetModels(t)
    \/ \E t \in Tasks : BodyParserFails(t)
    \/ \E t \in Tasks : Start(t)
    \/ RefreshSucceeds
    \/ RefreshFails
    \/ Tick
    \/ \E t \in Tasks : UpstreamUnreachable(t)
    \/ \E t \in Tasks : UpstreamRefuses(t)
    \/ \E t \in Tasks : UpstreamAnswers(t)
    \/ \E t \in Tasks : StreamOpens(t)
    \/ \E t \in Tasks : StreamChunk(t)
    \/ \E t \in Tasks : StreamEnds(t)
    \/ \E t \in Tasks : StreamBreaks(t)
    \/ \E t \in Tasks : ClientDisconnects(t)

(***************************************************************************)
(* Initial states.                                                         *)
(***************************************************************************)
\* the ids a client names: configured ones, aliases, unknown ones
RequestedIds == {"ghost", "a-ghost", "claude", "a-claude", "gpt", "a-gpt", "glm"}
\* a request whose bytes are not JSON
Unparsable == [unparsable |-> TRUE]
\* request bodies: with or without a model, with stream true, false or not set;
\* and the one that does not parse
RequestBodies ==
    {Merge(m, st) : m \in {<<>>} \cup {[model |-> id] : id \in RequestedIds},
                    st \in {<<>>, [stream |-> TRUE], [stream |-> FALSE]}}
    \cup {Unparsable}
RequestHeaders == [authorization : {"", "Bearer client"}, xapikey : {"", "xkey"}]
\* the bodies that come with a route: GET /v1/models has none
BodiesOf(route) == IF route = "models" THEN {<<>>} ELSE RequestBodies

\* FACTORY_API_KEY and the refresh token may each be configured or not; the
\* production configurations with the shipped endpoints, and those in dev mode or
\* with another Anthropic endpoint
DispatchConfigs ==
    {[systemPrompt |-> "P:", reasoning |-> l, fixedKey |-> f, refreshToken |-> r,
      endpoints |-> e, devMode |-> FALSE, baseUrls |-> BaseUrl] :
        l \in {"auto", "high"}, f \in {"", "FK"}, r \in {"", "RT"}, e \in {AllTypes, {}}}
    \cup
    {[systemPrompt |-> "P:", reasoning |-> "auto", fixedKey |-> f, refreshToken |-> r,
      endpoints |-> AllTypes, devMode |-> d, baseUrls |-> u] :
        f \in {"", "FK"}, r \in {"", "RT"}, d \in BOOLEAN, u \in BaseUrlChoices}

\* the credential cache at start: nothing persisted, or a token still fresh
InitCaches ==
    IF config.refreshToken = "" THEN {NoCache}
    ELSE {NoCache, [token |-> "tok0", expiresAt |-> TokenLifetime]}

\* the event streams an upstream may answer with, up to MaxChunks events
Feeds == UNION {[1..n -> UpstreamEvents] : n \in 0..MaxChunks}
\* two of them: a well-formed stream, and one that starts with an anomaly
SampleFeeds ==
    {<<[type |-> "open", index |-> 0], [type |-> "delta", index |-> 0, text |-> "a"],
       [type |-> "completed", id |-> "up9", status |-> "completed"]>>,
     <<[type |-> "delta", index |-> 1, text |-> "a"]>>}

\* app.listen has succeeded: the process serves requests
Listening == [phase |-> "listening", portFree |-> TRUE]

XformIdle == tkind = "none" /\ tin = <<>> /\ tout = <<>>
DispatchIdle ==
    /\ task = [t \in Tasks |-> NoTask]
    /\ cache = NoCache /\ now = 0 /\ refreshPromise = 0 /\ tokenCalls = <<>>

\* one request, every input
Init ==
    /\ config \in DispatchConfigs
    /\ cache \in InitCaches
    /\ now = 0 /\ refreshPromise = 0 /\ tokenCalls = <<>>
    /\ \E route \in Routes \cup {"models"}, headers \in RequestHeaders :
          \E body \in BodiesOf(route) :
              /\ task = [t \in Tasks |->
                            IF t = 1 THEN NewTask(route, body, headers) ELSE NoTask]
              /\ feed \in (IF IsTrue(body, "stream") THEN SampleFeeds ELSE {<<>>})
    /\ server = Listening
    /\ XformIdle

Spec == Init /\ [][Next]_vars

\* NumTasks requests of one valid shape, racing on the credential cache up to the
\* point where each holds its credential and has issued its upstream call
InitConcurrent ==
    /\ config \in {c \in DispatchConfigs : c.endpoints = AllTypes /\ c.reasoning = "auto"}
    /\ cache \in InitCaches
    /\ now = 0 /\ refreshPromise = 0 /\ tokenCalls = <<>>
    /\ \E authorization \in [Tasks -> {"", "Bearer client"}] :
          task = [t \in Tasks |->
                    NewTask("chat", [model |-> "glm"],
                            [authorization |-> authorization[t], xapikey |-> ""])]
    /\ feed = <<>>
    /\ server = Listening
    /\ XformIdle

NextConcurrent ==
    \/ \E t \in Tasks : Start(t)
    \/ RefreshSucceeds
    \/ RefreshFails
    \/ Tick

SpecConcurrent == InitConcurrent /\ [][NextConcurrent]_vars

\* one streaming /v1/chat/completions request with a fixed key configured, against a
\* model of each type, and every event stream the upstream may answer with
InitStream ==
    /\ config = [systemPrompt |-> "P:", reasoning |-> "auto", fixedKey |-> "FK",
                 refreshToken |-> "", endpoints |-> AllTypes, devMode |-> FALSE,
                 baseUrls |-> BaseUrl]
    /\ cache = NoCache /\ now = 0 /\ refreshPromise = 0 /\ tokenCalls = <<>>
    /\ \E id \in {"a-claude", "gpt", "glm"} :
          task = [t \in Tasks |->
                    IF t = 1
                    THEN NewTask("chat", [model |-> id, stream |-> TRUE],
                                 [authorization |-> "", xapikey |-> ""])
                    ELSE NoTask]
    /\ feed \in Feeds
    /\ server = Listening
    /\ XformIdle

NextStream ==
    \/ \E t \in Tasks : Start(t)
    \/ \E t \in Tasks : StreamOpens(t)
    \/ \E t \in Tasks : StreamChunk(t)
    \/ \E t \in Tasks : StreamEnds(t)
    \/ \E t \in Tasks : StreamBreaks(t)

SpecStream == InitStream /\ [][NextStream]_vars

(***************************************************************************)
(* SpecStartup: the process from its start (server.js, lines 110-158),     *)
(* then one request.                                                       *)
(***************************************************************************)
\* variant: initializeAuth fails when no credential source is configured
InitializeAuthFails_WithoutSource ==
    IF config.fixedKey # "" THEN {FALSE}
    ELSE IF config.refreshToken # "" THEN {TRUE, FALSE}
    ELSE {TRUE}

\* whether initializeAuth (auth.js) throws: never when a fixed key is configured or
\* when no source is configured at all; with a refresh token as the source the
\* first refresh may fail
InitializeAuthFails ==
    IF config.fixedKey = "" /\ config.refreshToken # "" THEN {TRUE, FALSE} ELSE {FALSE}

\* loadConfig, initializeAuth, app.listen: the process ends up listening, or exits
\* when initializeAuth throws or the port is in use
Startup ==
    /\ server.phase = "starting"
    /\ \E fails \in InitializeAuthFails :
          server' = [server EXCEPT !.phase =
                        IF fails \/ ~server.portFree THEN "exited" ELSE "listening"]
    /\ UNCHANGED <<config, feed, task, cache, now, refreshPromise, tokenCalls, xvars>>

InitStartup ==
    /\ config \in {c \in DispatchConfigs : c.endpoints = AllTypes /\ c.reasoning = "auto"}
    /\ cache \in InitCaches
    /\ now = 0 /\ refreshPromise = 0 /\ tokenCalls = <<>>
    /\ \E route \in Routes \cup {"models"}, headers \in RequestHeaders :
          \E body \in BodiesOf(route) :
              /\ task = [t \in Tasks |->
                            IF t = 1 THEN NewTask(route, body, headers) ELSE NoTask]
              /\ feed \in (IF IsTrue(body, "stream") THEN SampleFeeds ELSE {<<>>})
    /\ server \in [phase : {"starting"}, portFree : BOOLEAN]
    /\ XformIdle

NextStartup == Startup \/ Next

SpecStartup == InitStartup /\ [][NextStartup]_vars

(***************************************************************************)
(* SpecXform: the three rewritings as pure functions of the client body   *)
(* and the configuration.  The initial states enumerate the bodies; one    *)
(* action per rewriting applies it.                                        *)
(***************************************************************************)
\* the reasoning-related fields a client may send, with a value no level produces,
\* and one unrelated field
ClientFields ==
    [reasoning |-> [effort |-> "minimal", summary |-> "detailed"],
     thinking |-> [type |-> "enabled", budget_tokens |-> 8192],
     reasoning_effort |-> "minimal",
     max_tokens |-> 100]
ReasoningFields == {"reasoning", "thinking", "reasoning_effort"}
\* every choice of which of them the client sends
ClientObjects == {[k \in S |-> ClientFields[k]] : S \in SUBSET DOMAIN ClientFields}

\* message content: a plain string or an array of parts
Contents == {[str |-> "a"], [arr |-> <<[type |-> "text", text |-> "b"]>>]}
MessageValues == {[role |-> r, content |-> c] : r \in {"system", "user"}, c \in Contents}
MsgLists == UNION {[1..n -> MessageValues] : n \in 0..MaxMsgs}

\* the field that carries the system prompt in each rewriting
PromptField(kind) ==
    CASE kind = "common" -> "messages"
      [] kind = "responses" -> "instructions"
      [] kind = "messages" -> "system"

\* the client values of that field; <<>> is the object without it
PromptObjects(kind) ==
    {<<>>} \cup
    CASE kind = "common" -> {[messages |-> l] : l \in MsgLists}
      [] kind = "responses" -> {[instructions |-> i] : i \in {"", "I"}}
      [] kind = "messages" ->
            {[system |-> v] : v \in {[str |-> "S"], [arr |-> <<>>],
                                     [arr |-> <<[type |-> "text", text |-> "S"]>>]}}

\* the model ids a client may name on the route of each rewriting
ModelsOf(kind) ==
    CASE kind = "common" -> {"glm", "a-glm"}
      [] kind = "responses" -> {"gpt", "a-gpt"}
      [] kind = "messages" -> {"claude", "a-claude"}

Kinds == {"common", "responses", "messages"}
Bodies(kind) ==
    {Merge(Merge([model |-> m], o), x) :
        m \in ModelsOf(kind), o \in ClientObjects, x \in PromptObjects(kind)}

XformConfigs ==
    {[systemPrompt |-> p, reasoning |-> l, fixedKey |-> "", refreshToken |-> "",
      endpoints |-> AllTypes, devMode |-> FALSE, baseUrls |-> BaseUrl] :
        p \in Prompts, l \in Levels}

InitXform ==
    /\ config \in XformConfigs
    /\ tkind \in Kinds
    /\ tin \in Bodies(tkind)
    /\ tout = <<>>
    /\ feed = <<>>
    /\ server = Listening
    /\ DispatchIdle

\* /v1/chat/completions against a common model: transformToCommon
TransformCommon ==
    /\ tkind = "common" /\ tout = <<>>
    /\ tout' = <<Outbound("common", tin)>>
    /\ UNCHANGED <<config, feed, server, tkind, tin, dvars>>

\* /v1/responses: the forwarded body
ForwardResponses ==
    /\ tkind = "responses" /\ tout = <<>>
    /\ tout' = <<Outbound("responses", tin)>>
    /\ UNCHANGED <<config, feed, server, tkind, tin, dvars>>

\* /v1/messages: the forwarded body
ForwardMessages ==
    /\ tkind = "messages" /\ tout = <<>>
    /\ tout' = <<Outbound("messages", tin)>>
    /\ UNCHANGED <<config, feed, server, tkind, tin, dvars>>

NextXform == TransformCommon \/ ForwardResponses \/ ForwardMessages

SpecXform == InitXform /\ [][NextXform]_vars

\* the rewriting has run
Rewritten == tout # <<>>
out == tout[1]
SentByClient == DOMAIN tin \cap ReasoningFields

(***************************************************************************)
(* SpecAdapter: convertResponseToChatCompletion as a pure function of the  *)
(* upstream body.  The initial states enumerate the bodies; the one action *)
(* applies the function.                                                   *)
(***************************************************************************)
\* content parts: two texts and a part of another type
TextX == [type |-> "output_text", text |-> "x"]
TextY == [type |-> "output_text", text |-> "y"]
Refusal == [type |-> "refusal", text |-> "r"]
ContentLists ==
    {<<>>, <<TextX>>, <<TextX, TextY>>, <<TextY, TextX>>, <<Refusal, TextX>>,
     <<TextX, Refusal, TextY>>}
\* output items: messages with and without content, and an item of another type
OutputItems ==
    {[type |-> "message", role |-> "assistant", content |-> [arr |-> c]] : c \in ContentLists}
    \cup {[type |-> "message", role |-> "assistant"], [type |-> "reasoning"]}
OutputLists == UNION {[1..n -> OutputItems] : n \in 0..MaxItems}
\* the rest of the body: each field present or not
StatusObjects == {<<>>, [status |-> "completed"], [status |-> "incomplete"]}
UsageObjects ==
    {<<>>, [usage |-> [input_tokens |-> 3]],
     [usage |-> [input_tokens |-> 3, output_tokens |-> 5, total_tokens |-> 8]]}
IdObjects == {<<>>, [id |-> "resp_7"], [id |-> "msg_7"]}
\* the well-shaped upstream bodies
ResponseBodies ==
    {Merge(Merge(Merge([output |-> [arr |-> o]], st), u), i) :
        o \in OutputLists, st \in StatusObjects, u \in UsageObjects, i \in IdObjects}

InitAdapter ==
    /\ config = [systemPrompt |-> "", reasoning |-> "auto", fixedKey |-> "",
                 refreshToken |-> "", endpoints |-> AllTypes, devMode |-> FALSE,
                 baseUrls |-> BaseUrl]
    /\ tkind = "adapter"
    /\ tin \in ResponseBodies
    /\ tout = <<>>
    /\ feed = <<>>
    /\ server = Listening
    /\ DispatchIdle

\* convertResponseToChatCompletion(tin)
ConvertResponse ==
    /\ tkind = "adapter" /\ tout = <<>>
    /\ tout' = <<convertResponseToChatCompletion(tin)>>
    /\ UNCHANGED <<config, feed, server, tkind, tin, dvars>>

NextAdapter == ConvertResponse

SpecAdapter == InitAdapter /\ [][NextAdapter]_vars

(***************************************************************************)
(* SpecPurity: transformToCommon over a heap of JavaScript objects, to     *)
(* tell what it writes from what it allocates.  The heap is a sequence of  *)
(* objects and an address is an index in it; an object is [fields |-> f],  *)
(* an array of objects is [items |-> the addresses of its elements], and a *)
(* field that holds an array holds [ref |-> its address].                  *)
(***************************************************************************)
\* the client body as express.json() leaves it on the heap: the message objects,
\* the messages array, the request object last
ToHeap(body) ==
    LET msgs == IF Has(body, "messages") THEN body.messages ELSE <<>>
        n == Len(msgs)
        objects == [i \in 1..n |-> [fields |-> msgs[i]]]
        array == [items |-> [i \in 1..n |-> i]]
    IN  IF Has(body, "messages")
        THEN [heap |-> objects \o <<array, [fields |-> With(body, "messages", [ref |-> n + 1])]>>,
              req |-> n + 2]
        ELSE [heap |-> <<[fields |-> body]>>, req |-> 1]

\* the JSON value of the object at addr
Deref(heap, addr) ==
    LET fields == heap[addr].fields
    IN  IF Has(fields, "messages")
        THEN LET items == heap[fields.messages.ref].items
             IN  With(fields, "messages", [i \in 1..Len(items) |-> heap[items[i]].fields])
        ELSE fields

\* variant: the function works on the object it was given
Spread_Alias(heap, addr) == [heap |-> heap, addr |-> addr]

\* request-common.js, lines 8-10: { ...openaiRequest }, a new object with the same
\* fields, those that hold a reference holding the same reference
Spread(heap, addr) == [heap |-> Append(heap, [fields |-> heap[addr].fields]), addr |-> Len(heap) + 1]

\* request-common.js, lines 4-58 on the heap: the heap after the call and the
\* address of the object returned
HeapTransformToCommon(heap, openaiRequest) ==
    LET spread == Spread(heap, openaiRequest)
        commonRequest == spread.addr
        h1 == spread.heap
        systemPrompt == getSystemPrompt
        hasMessages == Has(h1[commonRequest].fields, "messages")
        items == IF hasMessages THEN h1[h1[commonRequest].fields.messages.ref].items ELSE <<>>
        first == FirstSystem([i \in 1..Len(items) |-> h1[items[i]].fields])
        content == h1[items[first]].fields.content
        \* the new system message, then the new array, then the assignment
        h2 == Append(h1, [fields |->
                  [role |-> "system",
                   content |-> [str |-> IF first = 0 THEN systemPrompt
                                        ELSE systemPrompt \o
                                             (IF IsStr(content) THEN content.str ELSE "")]]])
        message == Len(h2)
        h3 == Append(h2, [items |->
                  IF first = 0 THEN <<message>> \o items
                  ELSE [i \in 1..Len(items) |-> IF i = first THEN message ELSE items[i]]])
        h4 == [h3 EXCEPT ![commonRequest].fields = With(@, "messages", [ref |-> Len(h3)])]
        prompted == IF systemPrompt = "" THEN h1 ELSE h4
        reasoningLevel == getModelReasoning(ModelOf(heap[openaiRequest].fields))
    IN  [heap |-> [prompted EXCEPT ![commonRequest].fields =
                      CommonReasoning(@, reasoningLevel)],
         result |-> commonRequest]

InitPurity ==
    /\ config \in XformConfigs
    /\ tkind = "purity"
    /\ tin \in {ToHeap(body) : body \in Bodies("common")}
    /\ tout = <<>>
    /\ feed = <<>>
    /\ server = Listening
    /\ DispatchIdle

\* the heap as the calls made so far have left it
CurrentHeap == IF tout = <<>> THEN tin.heap ELSE tout[Len(tout)].heap

\* transformToCommon is called on the client's request object, a first and a second
\* time
CallTransformToCommon ==
    /\ tkind = "purity" /\ Len(tout) < 2
    /\ tout' = Append(tout, HeapTransformToCommon(CurrentHeap, tin.req))
    /\ UNCHANGED <<config, feed, server, tkind, tin, dvars>>

NextPurity == CallTransformToCommon

SpecPurity == InitPurity /\ [][NextPurity]_vars

(***************************************************************************)
(* SpecHeaders: getCommonHeaders (request-common.js) as a function of the  *)
(* credential, the client's headers, the provider and the identifiers that *)
(* generateUUID draws.  A header set is a function from header names to    *)
(* values; a header the client did not send is outside the domain.         *)
(***************************************************************************)
\* the identifiers generateUUID may return
UUIDs == {"uuid-1", "uuid-2"}
\* getUserAgent() of config.js
UserAgent == "factory-cli"

\* request-common.js, lines 78-86
StainlessDefaults ==
    [h \in {"x-stainless-arch", "x-stainless-lang", "x-stainless-os", "x-stainless-runtime",
            "x-stainless-retry-count", "x-stainless-package-version",
            "x-stainless-runtime-version"} |->
        CASE h = "x-stainless-arch" -> "x64"
          [] h = "x-stainless-lang" -> "js"
          [] h = "x-stainless-os" -> "MacOS"
          [] h = "x-stainless-runtime" -> "node"
          [] h = "x-stainless-retry-count" -> "0"
          [] h = "x-stainless-package-version" -> "5.23.2"
          [] OTHER -> "v24.3.0"]

\* variant: the fallback is taken whatever the client sent
ClientOr_AlwaysFallback(clientHeaders, name, fallback) == fallback

\* clientHeaders[name] || fallback: an absent or empty header gives the fallback
ClientOr(clientHeaders, name, fallback) ==
    IF name \in DOMAIN clientHeaders /\ clientHeaders[name] # "" THEN clientHeaders[name]
    ELSE fallback

\* request-common.js, lines 60-94; provider "" is an argument left undefined, and
\* sessionUuid, messageUuid are what generateUUID returns when it is called
getCommonHeaders(authHeader, clientHeaders, provider, sessionUuid, messageUuid) ==
    LET headers ==
            [h \in {"accept", "content-type", "authorization", "x-api-provider",
                    "x-factory-client", "x-session-id", "x-assistant-message-id",
                    "user-agent", "connection"} |->
                CASE h = "accept" -> "application/json"
                  [] h = "content-type" -> "application/json"
                  [] h = "authorization" -> CommonAuthorization(authHeader)
                  [] h = "x-api-provider" -> IF provider = "" THEN "baseten" ELSE provider
                  [] h = "x-factory-client" -> "cli"
                  [] h = "x-session-id" -> ClientOr(clientHeaders, "x-session-id", sessionUuid)
                  [] h = "x-assistant-message-id" ->
                        ClientOr(clientHeaders, "x-assistant-message-id", messageUuid)
                  [] h = "user-agent" -> UserAgent
                  [] OTHER -> "keep-alive"]
    IN  Merge(headers,
              [h \in DOMAIN StainlessDefaults |-> ClientOr(clientHeaders, h, StainlessDefaults[h])])

\* what a client sends for one header: nothing, an empty value, a value
HeaderChoices(name, value) == {<<>>, [h \in {name} |-> ""], [h \in {name} |-> value]}
ClientHeaderSets ==
    {Merge(Merge(a, b), c) :
        a \in HeaderChoices("x-session-id", "session-7"),
        b \in HeaderChoices("x-assistant-message-id", "message-7"),
        c \in HeaderChoices("x-stainless-arch", "arm64")}
HeaderInputs ==
    [authHeader : {"", "Bearer FK", "Bearer client"}, clientHeaders : ClientHeaderSets,
     provider : {"", "baseten", "fireworks"}]

InitHeaders ==
    /\ config = [systemPrompt |-> "", reasoning |-> "auto", fixedKey |-> "",
                 refreshToken |-> "", endpoints |-> AllTypes, devMode |-> FALSE,
                 baseUrls |-> BaseUrl]
    /\ tkind = "headers"
    /\ tin \in HeaderInputs
    /\ tout = <<>>
    /\ feed = <<>>
    /\ server = Listening
    /\ DispatchIdle

\* getCommonHeaders(authHeader, clientHeaders, provider)
BuildCommonHeaders ==
    /\ tkind = "headers" /\ tout = <<>>
    /\ \E sessionUuid \in UUIDs, messageUuid \in UUIDs :
          tout' = <<getCommonHeaders(tin.authHeader, tin.clientHeaders, tin.provider,
                                     sessionUuid, messageUuid)>>
    /\ UNCHANGED <<config, feed, server, tkind, tin, dvars>>

NextHeaders == BuildCommonHeaders

SpecHeaders == InitHeaders /\ [][NextHeaders]_vars

(***************************************************************************)
(* Claims about credential resolution and the checks of the handlers.      *)
(***************************************************************************)
Failed == {n \in 1..Len(tokenCalls) : tokenCalls[n].state = "failed"}
\* the request of task t passed every check that precedes getApiKey
Admitted(t) == task[t].pc # "absent" /\ Rejection(task[t].route, task[t].body) = <<>>
\* the handler of task t has run up to its first await, at least
Entered1(t) == task[t].pc \notin {"absent", "received"}

\* C1: with a refresh token as the credential source and the cached access token
\* expired or absent, N >= 2 requests resolving concurrently have at most one call
\* to the token endpoint in flight at any moment; every resolver that finds a
\* refresh in flight waits for that one and never starts its own; it receives the
\* token that refresh issued; and as long as the clock has not passed and no
\* refresh has failed, exactly one call has been made in total.
C1_SingleFlightRefresh ==
    /\ Cardinality(InFlight) <= 1
    /\ \A t \in Tasks :
          /\ task[t].pc = "awaitKey" => task[t].awaiting \in InFlight
          /\ \A n \in 1..Len(tokenCalls) : tokenCalls[n].by = t => task[t].awaiting = n
          /\ (task[t].awaiting # 0 /\ tokenCalls[task[t].awaiting].state = "ok") =>
                /\ task[t].key = "resolved"
                /\ task[t].authHeader = "Bearer " \o IssuedToken(task[t].awaiting)
    /\ (now = 0 /\ Failed = {} /\ \E t \in Tasks : task[t].awaiting # 0) =>
          Len(tokenCalls) = 1

\* C1 witness: every one of the N >= 2 requests waited for the same single refresh
\* and was given the token it issued.
C1_Witness ==
    /\ NumTasks >= 2
    /\ Len(tokenCalls) = 1 /\ tokenCalls[1].state = "ok"
    /\ \A t \in Tasks : task[t].awaiting = 1 /\ task[t].authHeader = "Bearer " \o IssuedToken(1)

\* the access tokens the refreshed source can hold: the persisted one and the issued ones
RefreshedValues == {"Bearer tok0"} \cup {"Bearer " \o IssuedToken(n) : n \in 1..Len(tokenCalls)}

\* C2: credential resolution follows a fixed priority.  With a fixed key configured
\* the fixed key is returned, no call to the token endpoint is ever made and the
\* resolver never waits, whatever the refresh-token state and the client header;
\* otherwise, with a refresh token configured, a refreshed access token is returned
\* (or resolution fails), never the client's value; otherwise the caller-supplied
\* authorization value is returned unchanged.
C2_CredentialPriority ==
    \A t \in Tasks :
        /\ config.fixedKey # "" =>
              /\ tokenCalls = <<>> /\ task[t].awaiting = 0 /\ task[t].key # "failed"
              /\ task[t].key = "resolved" => task[t].authHeader = "Bearer " \o config.fixedKey
              /\ (Admitted(t) /\ Entered1(t)) => task[t].key = "resolved"
        /\ (config.fixedKey = "" /\ config.refreshToken # "" /\ task[t].key = "resolved") =>
              task[t].authHeader \in RefreshedValues
        /\ (config.fixedKey = "" /\ config.refreshToken = "") =>
              /\ tokenCalls = <<>> /\ task[t].awaiting = 0
              /\ task[t].key = "resolved" =>
                    /\ task[t].authHeader = ClientAuthorization(task[t].route, task[t].headers)
                    /\ task[t].headers.authorization # "" =>
                          task[t].authHeader = task[t].headers.authorization

\* C2 witness: a fixed key, a refresh token and a client header are all present, the
\* cached token is absent, and the request was given the fixed key.
C2_Witness ==
    /\ config.fixedKey # "" /\ config.refreshToken # "" /\ cache.token = ""
    /\ task[1].headers.authorization # ""
    /\ task[1].key = "resolved" /\ task[1].authHeader = "Bearer " \o config.fixedKey

\* the id the client named and the id looked up for task t
Requested(t) == ModelOf(task[t].body)
Redirected(t) == getRedirectedModelId(Requested(t))
\* the client named a model and, after the redirect table, no configured model has that id
UnknownModel(t) ==
    task[t].pc # "absent" /\ Requested(t) # "" /\ getModelById(Redirected(t)) = <<>>
\* task t neither resolved a credential nor called the token endpoint or an upstream
Untouched(t) ==
    /\ task[t].key = "none" /\ task[t].awaiting = 0 /\ task[t].calls = <<>>
    /\ \A n \in 1..Len(tokenCalls) : tokenCalls[n].by # t

\* C3 as stated: on each of the four routes an unknown model id is answered with a
\* 404 whose error names the id the client requested, with no credential
\* resolution and no upstream call.
C3_NotFoundNamesRequestedId ==
    \A t \in Tasks : (UnknownModel(t) /\ Entered1(t)) =>
        /\ task[t].pc = "done" /\ Untouched(t)
        /\ task[t].sent = <<[status |-> 404,
                             json |-> [error |-> "Model " \o Requested(t) \o " not found"]]>>

\* C3 amended: the 404 names the id after the redirect table was applied, which is
\* the requested id when no redirect applies; the rest as stated.
C3_NotFoundNamesRedirectedId ==
    \A t \in Tasks : (UnknownModel(t) /\ Entered1(t)) =>
        /\ task[t].pc = "done" /\ Untouched(t)
        /\ task[t].sent = <<[status |-> 404,
                             json |-> [error |-> "Model " \o Redirected(t) \o " not found"]]>>
        /\ Requested(t) \notin DOMAIN Redirects =>
              task[t].sent[1].json.error = "Model " \o Requested(t) \o " not found"

\* C3 witness: an alias whose target is not configured was answered on a direct
\* route while a refresh token with no cached token was configured.
C3_Witness ==
    /\ UnknownModel(1) /\ Requested(1) # Redirected(1) /\ task[1].pc = "done"
    /\ task[1].route = "count_tokens"
    /\ config.fixedKey = "" /\ config.refreshToken # "" /\ cache.token = ""

\* the model of task t is configured and of a type its direct route does not serve
TypeMismatch(t) ==
    /\ task[t].pc # "absent" /\ getModelById(Redirected(t)) # <<>>
    /\ \/ task[t].route = "responses" /\ ModelType[Redirected(t)] # "openai"
       \/ task[t].route \in {"messages", "count_tokens"}
             /\ ModelType[Redirected(t)] # "anthropic"

\* C4: /v1/responses with a configured model that is not of type openai, and
\* /v1/messages or /v1/messages/count_tokens with one that is not of type
\* anthropic, is answered with a 4xx before any credential resolution and any
\* upstream call.
C4_TypeMismatchRejected ==
    \A t \in Tasks : (TypeMismatch(t) /\ Entered1(t)) =>
        /\ task[t].pc = "done" /\ Untouched(t)
        /\ Len(task[t].sent) = 1
        /\ task[t].sent[1].status >= 400 /\ task[t].sent[1].status <= 499

\* C4 witness: a count_tokens request for an openai model was rejected while a
\* refresh would otherwise have been needed.
C4_Witness ==
    /\ TypeMismatch(1) /\ task[1].pc = "done" /\ task[1].route = "count_tokens"
    /\ Redirected(1) = "gpt"
    /\ config.fixedKey = "" /\ config.refreshToken # "" /\ cache.token = ""

\* C5: when no credential source yields a usable value the client gets a 500
\* 'API key not available' and no upstream call is issued; every upstream call
\* carries the credential that getApiKey returned for that request, never an empty
\* value.
C5_NoCredentialNoCall ==
    \A t \in Tasks :
        /\ task[t].key = "failed" =>
              /\ task[t].pc = "done" /\ task[t].calls = <<>>
              /\ Len(task[t].sent) = 1 /\ task[t].sent[1].status = 500
              /\ task[t].sent[1].json.error = "API key not available"
        /\ (Admitted(t) /\ Entered1(t) /\ config.fixedKey = "" /\ config.refreshToken = ""
                /\ ClientAuthorization(task[t].route, task[t].headers) = "") =>
              task[t].key = "failed"
        /\ \A i \in 1..Len(task[t].calls) :
              /\ task[t].calls[i].authorization # ""
              /\ task[t].key = "resolved"
              /\ task[t].calls[i].authorization = task[t].authHeader

\* C5 witness: the refresh failed with nothing cached, and the waiting request was
\* answered 500 with no upstream call.
C5_Witness ==
    /\ task[1].key = "failed" /\ task[1].awaiting # 0 /\ task[1].pc = "done"
    /\ task[1].headers.authorization # ""

\* the upstream answered task t with a non-2xx status
Refused(t) ==
    /\ task[t].pc = "done" /\ Len(task[t].upstream) = 1 /\ ~task[t].streaming
    /\ Has(task[t].upstream[1], "status")

\* C6 as stated: the client response carries the upstream's status code and the
\* upstream's body verbatim.
C6_UpstreamErrorVerbatim ==
    \A t \in Tasks : Refused(t) =>
        /\ Len(task[t].sent) = 1
        /\ task[t].sent[1].status = task[t].upstream[1].status
        /\ Without(task[t].sent[1], {"status"}) = [text |-> task[t].upstream[1].text]

\* C6 amended: the client response carries the upstream's status code and a JSON
\* body {error: "Endpoint returned <status>", details: <the upstream's body text>},
\* in all four POST handlers.
C6_UpstreamErrorWrapped ==
    \A t \in Tasks : Refused(t) =>
        /\ Len(task[t].sent) = 1
        /\ task[t].sent[1].status = task[t].upstream[1].status
        /\ task[t].sent[1].json =
              [error |-> "Endpoint returned " \o ToString(task[t].upstream[1].status),
               details |-> task[t].upstream[1].text]

\* C6 witness: a non-2xx answer with a non-empty body was relayed on the
\* count_tokens route.
C6_Witness ==
    /\ Refused(1) /\ task[1].route = "count_tokens" /\ task[1].upstream[1].text # ""
    /\ task[1].upstream[1].status = 503

\* C11: in every upstream call of the four POST handlers the model field of the
\* outbound body is the redirected model id, and so never the alias the client
\* named when the two differ.
C11_OutboundModelIsRedirected ==
    \A t \in Tasks : \A i \in 1..Len(task[t].calls) :
        /\ Has(task[t].calls[i].body, "model")
        /\ task[t].calls[i].body.model = Redirected(t)
        /\ Requested(t) # Redirected(t) => task[t].calls[i].body.model # Requested(t)

\* C11 witness: a count_tokens request naming an alias reached the upstream.
C11_Witness ==
    /\ task[1].route = "count_tokens" /\ Len(task[1].calls) = 1
    /\ Requested(1) = "a-claude" /\ task[1].calls[1].body.model = "claude"

(***************************************************************************)
(* Claims about the reasoning policy (SpecXform).                          *)
(***************************************************************************)

\* C7: for a model whose reasoning level is off, the outbound body of each of the
\* three rewritings contains none of reasoning, thinking, reasoning_effort,
\* whatever the client sent.
C7_OffRemovesAllReasoningFields ==
    (Rewritten /\ config.reasoning = "off") => DOMAIN out \cap ReasoningFields = {}

\* C8: for a model whose reasoning level is auto, the outbound body of the Common
\* transformer, of /v1/responses and of /v1/messages equals the client body in
\* every field except model, which is the redirected id, and the field carrying the
\* system prompt; with no prompt configured that field is equal too, and with one
\* the messages other than the system message are the client's; reasoning,
\* thinking and reasoning_effort are each present iff the client sent them, with
\* the client's value.
C8_AutoLeavesBodyUntouched ==
    (Rewritten /\ config.reasoning = "auto") =>
        /\ out.model = getRedirectedModelId(tin.model)
        /\ Without(out, {"model", PromptField(tkind)})
               = Without(tin, {"model", PromptField(tkind)})
        /\ config.systemPrompt = "" => Without(out, {"model"}) = Without(tin, {"model"})
        /\ (tkind = "common" /\ Has(tin, "messages") /\ config.systemPrompt # "") =>
              LET first == FirstSystem(tin.messages)
              IN  IF first = 0 THEN Tail(out.messages) = tin.messages
                  ELSE /\ Len(out.messages) = Len(tin.messages)
                       /\ \A i \in 1..Len(tin.messages) :
                             i # first => out.messages[i] = tin.messages[i]
        /\ \A f \in ReasoningFields :
              /\ Has(out, f) <=> Has(tin, f)
              /\ Has(tin, f) => out[f] = tin[f]

\* C8 witness: an auto model rewrote a body in which the client sent several
\* reasoning fields at once, through an alias.
C8_Witness ==
    /\ Rewritten /\ config.reasoning = "auto" /\ config.systemPrompt # ""
    /\ {"reasoning", "thinking"} \subseteq SentByClient
    /\ tin.model # out.model

\* C9: for an Anthropic model at level low, medium or high, the thinking field
\* /v1/messages forwards is {type: enabled, budget_tokens: 4096 | 12288 | 24576},
\* whatever thinking value the client supplied.
C9_AnthropicThinkingBudget ==
    (Rewritten /\ tkind = "messages") =>
        /\ config.reasoning = "low" =>
              Has(out, "thinking") /\ out.thinking = [type |-> "enabled", budget_tokens |-> 4096]
        /\ config.reasoning = "medium" =>
              Has(out, "thinking") /\ out.thinking = [type |-> "enabled", budget_tokens |-> 12288]
        /\ config.reasoning = "high" =>
              Has(out, "thinking") /\ out.thinking = [type |-> "enabled", budget_tokens |-> 24576]

\* C9 witness: level medium overwrote a thinking value the client supplied.
C9_Witness ==
    /\ Rewritten /\ tkind = "messages" /\ config.reasoning = "medium"
    /\ Has(tin, "thinking") /\ tin.thinking # out.thinking

\* C10: for a model at level L in low, medium, high, /v1/responses sets reasoning to
\* {effort: L, summary: auto} and the Common transformer sets reasoning_effort to L,
\* each discarding the client's value of that field.
C10_ForcedEffort ==
    (Rewritten /\ config.reasoning \in {"low", "medium", "high"}) =>
        /\ tkind = "responses" =>
              /\ Has(out, "reasoning")
              /\ out.reasoning = [effort |-> config.reasoning, summary |-> "auto"]
        /\ tkind = "common" =>
              /\ Has(out, "reasoning_effort")
              /\ out.reasoning_effort = config.reasoning

\* C10 witness: a client value of the forced field was discarded, on either route.
C10_Witness ==
    /\ Rewritten /\ config.reasoning = "low"
    /\ \/ tkind = "responses" /\ Has(tin, "reasoning") /\ tin.reasoning # out.reasoning
       \/ tkind = "common" /\ Has(tin, "reasoning_effort")
             /\ tin.reasoning_effort # out.reasoning_effort

(***************************************************************************)
(* Claims about the system prompt (SpecXform).                             *)
(***************************************************************************)
\* the text block the prompt P becomes in a list of parts or of system blocks
PromptBlock == [type |-> "text", text |-> config.systemPrompt]

\* C12 as stated: with a system prompt P configured, the Common transformer's output
\* has, when the client sent a system message, P followed by the client's content
\* in the first such message, whether that content is a string or a list of parts,
\* and every other message as the client sent it; when the client sent none, one
\* system message with content P followed by the client's messages in their order.
C12_CommonPromptKeepsClientContent ==
    (Rewritten /\ tkind = "common" /\ config.systemPrompt # "") =>
        LET msgs == IF Has(tin, "messages") THEN tin.messages ELSE <<>>
            first == FirstSystem(msgs)
        IN  /\ Has(out, "messages")
            /\ IF first = 0
               THEN out.messages =
                        <<[role |-> "system", content |-> [str |-> config.systemPrompt]]>> \o msgs
               ELSE /\ Len(out.messages) = Len(msgs)
                    /\ \A i \in 1..Len(msgs) : i # first => out.messages[i] = msgs[i]
                    /\ out.messages[first].role = "system"
                    /\ out.messages[first].content =
                          IF IsStr(msgs[first].content)
                          THEN [str |-> config.systemPrompt \o msgs[first].content.str]
                          ELSE [arr |-> <<PromptBlock>> \o msgs[first].content.arr]

\* C13 as stated: with a system prompt P configured, the body /v1/messages forwards
\* has a system list whose first block is the text block P, followed by the client's
\* system content in its order, whether the client sent a list of blocks or a string.
C13_MessagesPromptKeepsClientSystem ==
    (Rewritten /\ tkind = "messages" /\ config.systemPrompt # "") =>
        /\ Has(out, "system") /\ IsArr(out.system)
        /\ out.system.arr =
              <<PromptBlock>> \o
              (IF ~Has(tin, "system") THEN <<>>
               ELSE IF IsArr(tin.system) THEN tin.system.arr
               ELSE <<[type |-> "text", text |-> tin.system.str]>>)

(***************************************************************************)
(* Claims about streaming responses (SpecStream, Spec).                    *)
(***************************************************************************)
\* request t is answered with an event stream, translated or forwarded as it is
Streams(t) == task[t].pc \in {"streaming", "done"} /\ task[t].streaming
Translates(t) == Streams(t) /\ task[t].transformer # <<>>
\* the stream of request t ran to the upstream's end
Completed(t) == Streams(t) /\ task[t].pc = "done" /\ ~task[t].broke

\* C14: for one streaming response, the chunks written to the client are in the
\* order in which the upstream emitted the chunks they come from: the source
\* positions of the written chunks never decrease, every written chunk comes from a
\* chunk the handler has already read, and it carries that chunk's content.
C14_WrittenInUpstreamOrder ==
    \A t \in Tasks : Streams(t) =>
        LET tr == task[t]
        IN  /\ Len(tr.upstream) <= Len(feed)
            /\ tr.upstream = SubSeq(feed, 1, Len(tr.upstream))
            /\ Len(tr.origin) = Len(tr.written)
            /\ \A i \in 1..Len(tr.written) :
                  /\ tr.origin[i] \in 1..Len(tr.upstream)
                  /\ \A j \in 1..Len(tr.written) : i < j => tr.origin[i] <= tr.origin[j]
                  /\ IF tr.transformer = <<>> THEN tr.written[i] = feed[tr.origin[i]]
                     ELSE LET event == feed[tr.origin[i]]
                          IN  \/ /\ event.type = "delta"
                                 /\ tr.written[i].content = event.text
                                 /\ tr.written[i].finish_reason = ""
                              \/ /\ event.type = "completed"
                                 /\ tr.written[i].finish_reason # ""

\* C14 witness: a translated stream ended with two different deltas and the finish
\* chunk written, in the upstream's order.
C14_Witness ==
    /\ Translates(1) /\ Completed(1)
    /\ Len(task[1].written) = 3
    /\ task[1].written[1].content = "b" /\ task[1].written[2].content = "a"
    /\ task[1].written[3].finish_reason = "stop"

\* C15: a streaming chat completion against a common-type model uses no response
\* transformer; what has been written to the client is always a prefix of the
\* upstream's chunks, each unmodified, and the whole of them once the upstream
\* stream has completed without error.
C15_CommonStreamForwarded ==
    \A t \in Tasks :
        (Streams(t) /\ task[t].route = "chat" /\ TaskModelType(task[t]) = "common") =>
            /\ task[t].transformer = <<>>
            /\ Len(task[t].written) <= Len(feed)
            /\ task[t].written = SubSeq(feed, 1, Len(task[t].written))
            /\ Completed(t) => task[t].written = feed

\* C15 witness: a common-type stream completed, an event a transformer would have
\* dropped among its chunks.
C15_Witness ==
    /\ Completed(1) /\ TaskModelType(task[1]) = "common"
    /\ Len(feed) = MaxChunks /\ task[1].written = feed
    /\ feed[1] = [type |-> "delta", index |-> 1, text |-> "a"]

\* the event request t reads next, and the translation state it meets
NextEvent(t) == feed[Len(task[t].upstream) + 1]
StateOf(t) == task[t].transformer[1]
\* request t reads one more upstream event in this step
Reads(t) == Translates(t) /\ Len(task'[t].upstream) = Len(task[t].upstream) + 1
\* that event is a delta for a block never opened, or a close for a block already closed
Anomalous(t) ==
    \/ /\ NextEvent(t).type = "delta"
       /\ ~Has(StateOf(t).contentBlocks, NextEvent(t).index)
    \/ /\ NextEvent(t).type = "close"
       /\ Has(StateOf(t).contentBlocks, NextEvent(t).index)
       /\ StateOf(t).contentBlocks[NextEvent(t).index].closed
\* that event is a delta for a block that is open, in a stream not yet finished
GoodDelta(t) ==
    /\ NextEvent(t).type = "delta" /\ StateOf(t).finishReason = ""
    /\ Has(StateOf(t).contentBlocks, NextEvent(t).index)
    /\ ~StateOf(t).contentBlocks[NextEvent(t).index].closed

\* C16: in the streaming transformer a delta for a block index that was not opened,
\* and a close for a block already closed, are dropped: nothing is written for
\* them, the translation state stays as it was and the stream goes on; a
\* well-formed delta that comes later is still translated and written.
C16_AnomaliesDropped ==
    [][\A t \in Tasks : Reads(t) =>
          /\ Anomalous(t) =>
                /\ task'[t].written = task[t].written
                /\ task'[t].transformer = task[t].transformer
                /\ task'[t].pc = "streaming" /\ task'[t].ends = 0
          /\ GoodDelta(t) =>
                /\ task'[t].pc = "streaming"
                /\ Len(task'[t].written) = Len(task[t].written) + 1
                /\ SubSeq(task'[t].written, 1, Len(task[t].written)) = task[t].written
                /\ task'[t].written[Len(task'[t].written)].content = NextEvent(t).text]_vars

\* C16 witness: the stream began with a delta for an unopened block, and the delta
\* and the terminal event that followed were written.
C16_Witness ==
    /\ Translates(1) /\ Completed(1) /\ Len(feed) = 4
    /\ feed[1] = [type |-> "delta", index |-> 1, text |-> "a"]
    /\ Len(task[1].written) = 2 /\ task[1].origin = <<3, 4>>
    /\ task[1].written[1].content = "b"

\* the text of the chunks written, and of the deltas of an upstream stream
RECURSIVE WrittenText(_)
WrittenText(chunks) ==
    IF chunks = <<>> THEN "" ELSE Head(chunks).content \o WrittenText(Tail(chunks))
RECURSIVE UpstreamText(_)
UpstreamText(events) ==
    IF events = <<>> THEN ""
    ELSE (IF Head(events).type = "delta" THEN Head(events).text ELSE "")
         \o UpstreamText(Tail(events))

\* an upstream stream in order: every block is opened once, every delta and close
\* refers to a block opened before it and not closed yet, and the one terminal
\* event comes last
InOrder(events) ==
    /\ events # <<>> /\ events[Len(events)].type = "completed"
    /\ \A k \in 1..Len(events) :
          /\ events[k].type = "completed" => k = Len(events)
          /\ events[k].type = "open" =>
                \A j \in 1..(k - 1) :
                    ~(events[j].type = "open" /\ events[j].index = events[k].index)
          /\ events[k].type \in {"delta", "close"} =>
                /\ \E j \in 1..(k - 1) :
                      events[j].type = "open" /\ events[j].index = events[k].index
                /\ \A j \in 1..(k - 1) :
                      ~(events[j].type = "close" /\ events[j].index = events[k].index)

FinishChunks(t) == {i \in 1..Len(task[t].written) : task[t].written[i].finish_reason # ""}

\* C17: for an OpenAI-type model and a streaming chat request, every delta chunk
\* written carries the text of one upstream delta, the new fragment alone, and at
\* most one finish chunk is written, after every delta chunk; once an upstream
\* stream that is in order has completed, the text of the chunks written, joined,
\* is the text of all upstream deltas, joined, and the stream ends with exactly one
\* finish chunk, whose finish_reason maps the upstream's terminal status
\* (completed to stop, a status no entry maps to unknown).
C17_DeltaTextAndFinish ==
    \A t \in Tasks : (Translates(t) /\ TaskModelType(task[t]) = "openai") =>
        LET tr == task[t]
        IN  /\ \A i \in 1..Len(tr.written) :
                  tr.written[i].finish_reason = "" =>
                      /\ feed[tr.origin[i]].type = "delta"
                      /\ tr.written[i].content = feed[tr.origin[i]].text
            /\ Cardinality(FinishChunks(t)) <= 1
            /\ FinishChunks(t) \subseteq {Len(tr.written)}
            /\ (Completed(t) /\ InOrder(feed)) =>
                  /\ WrittenText(tr.written) = UpstreamText(feed)
                  /\ FinishChunks(t) = {Len(tr.written)}
                  /\ feed[Len(feed)].status = "completed" =>
                        tr.written[Len(tr.written)].finish_reason = "stop"
                  /\ feed[Len(feed)].status = "odd" =>
                        tr.written[Len(tr.written)].finish_reason = "unknown"

\* C17 witness: an upstream stream in order with two deltas completed against the
\* OpenAI-type model.
C17_Witness ==
    /\ Translates(1) /\ Completed(1) /\ TaskModelType(task[1]) = "openai"
    /\ InOrder(feed) /\ UpstreamText(feed) = "ab"
    /\ Len(task[1].written) = 3 /\ task[1].written[3].finish_reason = "stop"

\* C18: for one streaming call the synthetic response id is generated once, when
\* the transformer is built and before any upstream event is processed; it is a
\* time-based id, it never changes afterwards, every chunk written carries it, and
\* it is not the id found in the upstream's events nor derived from it.
C18_OneSyntheticId ==
    /\ [](\A t \in Tasks : Translates(t) =>
            /\ StateOf(t).responseId \in {"chatcmpl-" \o ToString(n) : n \in 0..now}
            /\ \A i \in 1..Len(task[t].written) :
                  task[t].written[i].id = StateOf(t).responseId
            /\ \A k \in 1..Len(feed) :
                  Has(feed[k], "id") =>
                      StateOf(t).responseId \notin {feed[k].id, "chatcmpl-" \o feed[k].id})
    /\ [][\A t \in Tasks :
            /\ task[t].transformer # <<>> =>
                  /\ task'[t].transformer # <<>>
                  /\ task'[t].transformer[1].responseId = StateOf(t).responseId
            /\ (task[t].transformer = <<>> /\ task'[t].transformer # <<>>) =>
                  /\ task'[t].upstream = <<>> /\ task'[t].written = <<>>
                  /\ task'[t].transformer[1].responseId = "chatcmpl-" \o ToString(now)]_vars

\* C18 witness: the delta and the finish chunk of a stream were written under the id
\* generated when the stream began, the clock having moved on since.
C18_Witness ==
    /\ Translates(1) /\ Completed(1) /\ Len(task[1].written) = 2
    /\ StateOf(1).responseId = "chatcmpl-0" /\ now = MaxTime
    /\ task[1].written[2].id = "chatcmpl-0"

(***************************************************************************)
(* Claims about the non-streaming response adapter (Spec, SpecAdapter).    *)
(***************************************************************************)
\* request t, a non-streaming chat completion against an OpenAI-type model, was
\* answered 2xx by the upstream with a body that parsed as JSON
Adapted(t) ==
    /\ task[t].pc = "done" /\ task[t].route = "chat" /\ ~task[t].streaming
    /\ Len(task[t].upstream) = 1 /\ Has(task[t].upstream[1], "parsed")
    /\ task[t].upstream[1].parsed /\ TaskModelType(task[t]) = "openai"
UpstreamData(t) == task[t].upstream[1].data
\* the body has an output list with a message-typed item in it
ExpectedShape(data) ==
    /\ data # JsonNull /\ Has(data, "output") /\ IsArr(data.output)
    /\ \E i \in 1..Len(data.output.arr) :
          Has(data.output.arr[i], "type") /\ data.output.arr[i].type = "message"
\* the body is one the conversion throws on: null, or an output that is no list
Unconvertible(data) ==
    data = JsonNull \/ (Has(data, "output") /\ ~IsArr(data.output))

\* C19 as stated: whenever the upstream body is not of the expected shape (no
\* message-typed output item, no output list at all), the client receives the
\* upstream body as it is with a success status, never a completion built from it.
C19_MalformedBodyForwarded ==
    \A t \in Tasks : (Adapted(t) /\ ~ExpectedShape(UpstreamData(t))) =>
        task[t].sent = <<[status |-> 200, json |-> UpstreamData(t)]>>

\* C19 amended: the request never fails; the client receives the upstream body as it
\* is when the conversion throws (the body is null, or its output is no list), and
\* for a body with no output list or no message-typed item a completion with empty
\* content, the role assistant and the defaults of the adapter.
C19_FallbackOnlyWhenConversionThrows ==
    \A t \in Tasks : (Adapted(t) /\ ~ExpectedShape(UpstreamData(t))) =>
        /\ Len(task[t].sent) = 1 /\ task[t].sent[1].status = 200
        /\ Unconvertible(UpstreamData(t)) => task[t].sent[1].json = UpstreamData(t)
        /\ ~Unconvertible(UpstreamData(t)) =>
              /\ task[t].sent[1].json # UpstreamData(t)
              /\ task[t].sent[1].json.object = "chat.completion"
              /\ Len(task[t].sent[1].json.choices) = 1
              /\ task[t].sent[1].json.choices[1].message =
                    [role |-> "assistant", content |-> ""]

\* C19 witness: the upstream's output was no list and the client was sent that body.
C19_Witness ==
    /\ Adapted(1) /\ UpstreamData(1) = OutputNotListResponse
    /\ task[1].sent = <<[status |-> 200, json |-> OutputNotListResponse]>>

\* the reference adapter: the position of the first message-typed output item (0
\* when there is none), and the texts of the output_text parts of a list joined from
\* the left
FirstMessageAt(items) ==
    LET at == {i \in 1..Len(items) : items[i].type = "message"}
    IN  IF at = {} THEN 0 ELSE CHOOSE i \in at : \A j \in at : i <= j
JoinedText(parts) ==
    LET upTo[i \in 0..Len(parts)] ==
            IF i = 0 THEN ""
            ELSE upTo[i - 1] \o (IF parts[i].type = "output_text" THEN parts[i].text ELSE "")
    IN  upTo[Len(parts)]
ReferenceContent(resp) ==
    LET at == FirstMessageAt(resp.output.arr)
    IN  IF at = 0 \/ ~Has(resp.output.arr[at], "content") THEN ""
        ELSE JoinedText(resp.output.arr[at].content.arr)
ReferenceUsage(resp, name) ==
    IF Has(resp, "usage") /\ name \in DOMAIN resp.usage THEN resp.usage[name] ELSE 0

\* C20: on every well-shaped upstream body convertResponseToChatCompletion returns
\* what the reference adapter returns: one choice, whose message content is the
\* texts of the output_text parts of the first message-typed output item joined in
\* order, whose finish_reason is stop iff the upstream status is completed and
\* unknown otherwise, and usage counters equal to the upstream's, zero where the
\* upstream has none.
C20_AdapterMatchesReference ==
    (tkind = "adapter" /\ Rewritten) =>
        /\ ~out.threw
        /\ Len(out.value.choices) = 1
        /\ out.value.choices[1].index = 0
        /\ out.value.choices[1].message.content = ReferenceContent(tin)
        /\ out.value.choices[1].finish_reason =
              (IF Has(tin, "status") /\ tin.status = "completed" THEN "stop" ELSE "unknown")
        /\ out.value.usage =
              [prompt_tokens |-> ReferenceUsage(tin, "input_tokens"),
               completion_tokens |-> ReferenceUsage(tin, "output_tokens"),
               total_tokens |-> ReferenceUsage(tin, "total_tokens")]

\* C20 witness: a body whose first message mixes text parts with a part of another
\* type, followed by a second message, with an incomplete status and one usage
\* counter, was converted.
C20_Witness ==
    /\ tkind = "adapter" /\ Rewritten
    /\ Len(tin.output.arr) = 2
    /\ tin.output.arr[1] = [type |-> "message", role |-> "assistant",
                            content |-> [arr |-> <<TextX, Refusal, TextY>>]]
    /\ tin.output.arr[2] = [type |-> "message", role |-> "assistant",
                            content |-> [arr |-> <<TextY, TextX>>]]
    /\ Has(tin, "status") /\ tin.status = "incomplete"
    /\ Has(tin, "usage") /\ DOMAIN tin.usage = {"input_tokens"}
    /\ out.value.choices[1].message.content = "xy"
    /\ out.value.usage.total_tokens = 0

(***************************************************************************)
(* Claims about the refresh of the cached access token (SpecConcurrent).   *)
(***************************************************************************)
\* the refreshed-token source is the one in use
RefreshedSource == config.fixedKey = "" /\ config.refreshToken # ""
\* the handler of task t runs its first stretch in this step
Resolves(t) == task[t].pc = "received" /\ task'[t].pc # "received"

\* C21: under the refreshed-token source, a resolve at a time now >= expiresAt -
\* safetyMargin, or with nothing cached, does not return the cached access token:
\* the resolver waits for a refresh that is in flight from that very step on, and
\* issues no upstream call before it settles; the cached token is returned at once
\* only while now < expiresAt - safetyMargin.
C21_ProactiveRefresh ==
    [][\A t \in Tasks : (Resolves(t) /\ Admitted(t) /\ RefreshedSource) =>
            IF cache.token = "" \/ now >= cache.expiresAt - SafetyMargin
            THEN /\ task'[t].pc = "awaitKey" /\ task'[t].key = "none"
                 /\ task'[t].calls = <<>>
                 /\ task'[t].awaiting \in 1..Len(tokenCalls')
                 /\ tokenCalls'[task'[t].awaiting].state = "inflight"
            ELSE /\ task'[t].key = "resolved"
                 /\ task'[t].authHeader = "Bearer " \o cache.token
                 /\ tokenCalls' = tokenCalls]_vars

\* C21 witness: a token is cached and not yet expired, the clock is within the
\* safety margin of its expiry, and the resolver started a refresh and waits for it.
C21_Witness ==
    /\ RefreshedSource /\ cache.token # ""
    /\ now >= cache.expiresAt - SafetyMargin /\ now < cache.expiresAt
    /\ \E t \in Tasks :
          /\ task[t].pc = "awaitKey" /\ task[t].calls = <<>>
          /\ tokenCalls[task[t].awaiting] = [state |-> "inflight", by |-> t]

\* C22: when a refresh call fails, the cached credential is left as it was and the
\* single-flight guard is released, so that a later resolve may start a refresh
\* again; every resolver that waited for it is given the cached token when there is
\* one within its lifetime, and fails with 'API key not available', no upstream
\* call made, when no token is cached.
C22_FailedRefreshKeepsCache ==
    [][\A n \in 1..Len(tokenCalls) :
          (tokenCalls[n].state = "inflight" /\ tokenCalls'[n].state = "failed") =>
              /\ cache' = cache
              /\ refreshPromise' = 0
              /\ \A t \in Tasks : (task[t].pc = "awaitKey" /\ task[t].awaiting = n) =>
                    /\ (cache.token # "" /\ now < cache.expiresAt) =>
                          /\ task'[t].key = "resolved"
                          /\ task'[t].authHeader = "Bearer " \o cache.token
                          /\ Len(task'[t].calls) = 1
                    /\ cache.token = "" =>
                          /\ task'[t].key = "failed" /\ task'[t].pc = "done"
                          /\ task'[t].calls = <<>>
                          /\ Len(task'[t].sent) = 1 /\ task'[t].sent[1].status = 500
                          /\ task'[t].sent[1].json.error = "API key not available"]_vars

\* C22 witness: the first refresh failed while a token was cached within its
\* lifetime, the resolver that waited was given that token, the cache still holds
\* it, and a later resolver started a second refresh.
C22_Witness ==
    /\ Len(tokenCalls) = 2 /\ tokenCalls[1].state = "failed"
    /\ tokenCalls[2].by # tokenCalls[1].by
    /\ cache = [token |-> "tok0", expiresAt |-> TokenLifetime]
    /\ task[tokenCalls[1].by].key = "resolved"
    /\ task[tokenCalls[1].by].authHeader = "Bearer tok0"

(***************************************************************************)
(* Claims about the start of the process (SpecStartup).                    *)
(***************************************************************************)
\* neither a fixed key nor a refresh token is configured
NoSource == config.fixedKey = "" /\ config.refreshToken = ""

C24_DisconnectCancelsUpstreamRead ==
    \A t \in Tasks : task[t].gone => Len(task[t].upstream) <= task[t].goneAt + 1

\* task t was answered with the generic internal error
InternalErrorSent(t) ==
    /\ task[t].pc = "done" /\ Len(task[t].sent) = 1
    /\ task[t].sent[1].status = 500
    /\ task[t].sent[1].json.error = "Internal server error"

\* C25: an unexpected exception raised while a request is handled is answered with
\* the generic internal error, and with dev mode off that response carries no
\* detail of the exception: it has no message member.
C25_NoDetailInProduction ==
    \A t \in Tasks : (InternalErrorSent(t) /\ ~isDevMode) =>
        ~Has(task[t].sent[1].json, "message")

(***************************************************************************)
(* Claims about the outbound headers (SpecHeaders).                        *)
(***************************************************************************)
\* the client sent header `name` with a value
Supplied(name) == name \in DOMAIN tin.clientHeaders /\ tin.clientHeaders[name] # ""

\* C26: every header set built by getCommonHeaders has a session id and a message
\* id, each the client's x-session-id / x-assistant-message-id when the client
\* supplied one, never another value, and otherwise a generated identifier; it has
\* the client-identity marker, the resolved credential as authorization and the
\* provider tag.
C26_CommonHeadersIdentify ==
    (tkind = "headers" /\ Rewritten) =>
        /\ {"x-session-id", "x-assistant-message-id", "x-factory-client", "authorization",
             "x-api-provider"} \subseteq DOMAIN out
        /\ \A name \in {"x-session-id", "x-assistant-message-id"} :
              IF Supplied(name) THEN out[name] = tin.clientHeaders[name]
              ELSE out[name] \in UUIDs
        /\ out["x-factory-client"] = "cli"
        /\ out["authorization"] = tin.authHeader
        /\ out["x-api-provider"] = (IF tin.provider = "" THEN "baseten" ELSE tin.provider)

\* C26 witness: the client supplied a session id and no message id, and the header
\* set carries the client's session id next to a generated message id.
C26_Witness ==
    /\ tkind = "headers" /\ Rewritten
    /\ Supplied("x-session-id") /\ "x-assistant-message-id" \notin DOMAIN tin.clientHeaders
    /\ tin.authHeader = "Bearer FK" /\ tin.provider = "fireworks"
    /\ out["x-session-id"] = "session-7" /\ out["x-assistant-message-id"] = "uuid-2"
    /\ out["authorization"] = "Bearer FK" /\ out["x-api-provider"] = "fireworks"

(***************************************************************************)
(* Claims about the remaining routes (Spec).                               *)
(***************************************************************************)

\* C27: GET /v1/models is answered in the stretch in which it is entered, with
\* {object: list, data: [...]} holding one entry per configured model in the order
\* of the configuration, each with root equal to its id and parent null, with no
\* credential resolution, no call to the token endpoint and no upstream call.
C27_ModelsListed ==
    \A t \in Tasks : (task[t].route = "models" /\ Entered1(t)) =>
        /\ task[t].pc = "done" /\ Untouched(t)
        /\ Len(task[t].sent) = 1 /\ task[t].sent[1].status = 200
        /\ DOMAIN task[t].sent[1].json = {"object", "data"}
        /\ task[t].sent[1].json.object = "list"
        /\ LET data == task[t].sent[1].json.data
           IN  /\ Len(data) = Len(ConfigModels)
               /\ \A i \in 1..Len(data) :
                     /\ data[i].id = ConfigModels[i].id
                     /\ data[i].object = "model"
                     /\ data[i].root = data[i].id
                     /\ data[i].parent = JsonNull

\* C27 witness: the list was served while a refresh token with nothing cached was
\* the credential source and the client brought no credential.
C27_Witness ==
    /\ task[1].route = "models" /\ task[1].pc = "done"
    /\ config.fixedKey = "" /\ config.refreshToken # "" /\ cache.token = ""
    /\ task[1].headers = [authorization |-> "", xapikey |-> ""]
    /\ Len(task[1].sent[1].json.data) = 3 /\ task[1].sent[1].json.data[3].id = "glm"

\* the last n characters of s
Suffix(s, n) == SubSeq(s, Len(s) - n + 1, Len(s))

\* C28: a valid count_tokens request is forwarded in exactly one upstream call, to
\* the count_tokens sibling path of the Anthropic endpoint and never to the
\* messages endpoint itself, whatever base URL is configured for the Anthropic
\* endpoint; the forwarded body is the client body with the model id replaced and
\* nothing else changed.
C28_CountTokensSiblingPath ==
    \A t \in Tasks : (task[t].route = "count_tokens" /\ task[t].key = "resolved") =>
        /\ Len(task[t].calls) = 1
        /\ task[t].calls[1].url # config.baseUrls["anthropic"]
        /\ Suffix(task[t].calls[1].url, 13) = "/count_tokens"
        /\ task[t].calls[1].body = With(task[t].body, "model", Redirected(t))

(***************************************************************************)
(* Claims about transformToCommon as a function (SpecPurity).              *)
(***************************************************************************)

\* C29: transformToCommon never writes to the request it is given: after each call
\* the request object, its messages array and its message objects, and so its
\* reasoning_effort field, are what they were before the first call; and two calls
\* on the same request under the same configuration return equal bodies, the one
\* that the function of the request's value gives.
C29_TransformToCommonIsPure ==
    tkind = "purity" =>
        \A k \in 1..Len(tout) :
            /\ \A a \in 1..Len(tin.heap) : tout[k].heap[a] = tin.heap[a]
            /\ tout[k].result > Len(tin.heap)
            /\ Deref(tout[k].heap, tin.req) = Deref(tin.heap, tin.req)
            /\ Deref(tout[k].heap, tout[k].result) = Deref(tout[1].heap, tout[1].result)
            /\ Deref(tout[k].heap, tout[k].result) = transformToCommon(Deref(tin.heap, tin.req))

\* C29 witness: the function was called twice on a request with a system message
\* among two messages and a reasoning_effort of its own, with a prompt configured
\* and a level that overrides the effort.
C29_Witness ==
    /\ tkind = "purity" /\ Len(tout) = 2
    /\ config.systemPrompt # "" /\ config.reasoning = "high"
    /\ Has(Deref(tin.heap, tin.req), "messages") /\ Has(Deref(tin.heap, tin.req), "reasoning_effort")
    /\ Deref(tin.heap, tin.req).model = "glm"
    /\ Len(Deref(tin.heap, tin.req).messages) = 2
    /\ Deref(tin.heap, tin.req).messages[1].role = "user"
    /\ Deref(tin.heap, tin.req).messages[2] = [role |-> "system", content |-> [str |-> "a"]]
    /\ Deref(tout[2].heap, tout[2].result).reasoning_effort = "high"
    /\ Deref(tout[2].heap, tout[2].result).messages[2].content.str = "P:a"

\* the upstream answered task t with a 2xx and the handler relayed it as one JSON body
JsonAnswered(t) ==
    /\ ~task[t].streaming /\ task[t].pc = "done"
    /\ Len(task[t].upstream) = 1 /\ Has(task[t].upstream[1], "parsed")

Terminal(t) == Len(task[t].sent) + task[t].ends
\* the handler of request t is suspended at an await or has not run yet
Pending(t) == task[t].pc \in {"received", "awaitKey", "awaitUpstream", "streaming"}

\* C31: every invocation of a POST handler sends exactly one terminal response: a
\* request whose handler has returned has received one JSON response or one stream
\* end, never both and never two; while the handler is suspended nothing terminal
\* has been sent; a stream end comes only after the streaming headers and a JSON
\* response only without them; and once the response is sent nothing of the
\* exchange changes any more.  This includes the exceptions raised by the upstream
\* call, by parsing or converting its body and by its stream.
C31_ExactlyOneTerminalResponse ==
    /\ [](\A t \in Tasks : task[t].route \in Routes =>
            /\ Terminal(t) <= 1
            /\ task[t].pc = "done" => Terminal(t) = 1
            /\ Pending(t) => Terminal(t) = 0
            /\ task[t].ends = 1 => task[t].streaming
            /\ task[t].sent # <<>> => ~task[t].streaming)
    /\ [][\A t \in Tasks :
            (task[t].route \in Routes /\ task[t].pc = "done") =>
                /\ task'[t].sent = task[t].sent /\ task'[t].ends = task[t].ends
                /\ task'[t].written = task[t].written /\ task'[t].pc = "done"]_vars

\* C31 witness: the conversion of an upstream body threw in the chat handler and the
\* client has the one response of the fallback.
C31_Witness ==
    /\ task[1].route = "chat" /\ task[1].pc = "done" /\ task[1].key = "resolved"
    /\ TaskModelType(task[1]) = "openai"
    /\ Len(task[1].upstream) = 1 /\ Has(task[1].upstream[1], "parsed")
    /\ task[1].upstream[1].parsed /\ task[1].upstream[1].data = JsonNull
    /\ Terminal(1) = 1 /\ task[1].sent[1].status = 200

\* the model of request t is configured and no endpoint is configured for its type
EndpointMissing(t) ==
    /\ task[t].pc # "absent" /\ getModelById(Redirected(t)) # <<>>
    /\ ModelType[Redirected(t)] \notin config.endpoints
\* request t was answered by a check alone: one JSON response, no credential
\* resolved, no token refresh started or joined, no upstream call
CheckAnswered(t, status, error) ==
    /\ task[t].pc = "done" /\ Len(task[t].sent) = 1
    /\ task[t].sent[1].status = status /\ task[t].sent[1].json.error = error
    /\ Untouched(t)
\* request t has begun to resolve its credential
Resolving(t) ==
    \/ task[t].key # "none" \/ task[t].awaiting # 0
    \/ \E n \in 1..Len(tokenCalls) : tokenCalls[n].by = t

\* C32: in every POST handler the checks run in a fixed order and the first one that
\* fails alone determines the response: a missing model is answered 400 whatever
\* else is wrong; else an unknown model 404; else, on the direct routes, a model of
\* the wrong type 400; else a missing endpoint 500; and the credential is resolved
\* (so a token refresh is started or joined) only for a request that passed all of
\* them, and for every such request.
C32_ChecksInFixedOrder ==
    \A t \in Tasks :
        (task[t].route \in Routes /\ Entered1(t) /\ ~Has(task[t].body, "unparsable")) =>
            IF Redirected(t) = ""
            THEN CheckAnswered(t, 400, "model is required")
            ELSE IF UnknownModel(t)
            THEN CheckAnswered(t, 404, "Model " \o Redirected(t) \o " not found")
            ELSE IF TypeMismatch(t)
            THEN CheckAnswered(t, 400, "Invalid endpoint type")
            ELSE IF EndpointMissing(t)
            THEN CheckAnswered(t, 500,
                     "Endpoint type " \o ModelType[Redirected(t)] \o " not found")
            ELSE Resolving(t)

\* C32 witness: a request on /v1/responses for the Anthropic-type model, with no
\* endpoint configured and no credential available, is answered by the type check.
C32_Witness ==
    /\ task[1].route = "responses" /\ Redirected(1) = "claude"
    /\ config.endpoints = {} /\ config.fixedKey = "" /\ config.refreshToken = ""
    /\ task[1].headers.authorization = "" /\ task[1].headers.xapikey = ""
    /\ CheckAnswered(1, 400, "Invalid endpoint type")

\* the upstream call of request t failed: it was refused, could not be made, gave a
\* body that is not JSON, or its stream broke
UpstreamFailed(t) ==
    \/ Refused(t) \/ task[t].broke
    \/ task[t].pc = "done" /\ task[t].calls # <<>> /\ task[t].sent # <<>>
           /\ task[t].sent[1].status = 500

\* C33: each inbound request causes at most one upstream call: a call is issued only
\* by a request that has none yet, in the step in which its credential resolution
\* returns a credential, and it carries that credential; a request whose resolution
\* failed has no call; and no step after the call, an upstream failure or a stream
\* error included, issues another.
C33_AtMostOneUpstreamCall ==
    /\ [](\A t \in Tasks :
            /\ Len(task[t].calls) <= 1
            /\ task[t].calls # <<>> =>
                  /\ task[t].key = "resolved" /\ task[t].authHeader # ""
                  /\ task[t].calls[1].authorization = task[t].authHeader
            /\ task[t].key # "resolved" => task[t].calls = <<>>)
    /\ [][\A t \in Tasks :
            \/ task'[t].calls = task[t].calls
            \/ /\ task[t].calls = <<>> /\ Len(task'[t].calls) = 1
               /\ task[t].key = "none" /\ task'[t].key = "resolved"]_vars

\* C33 witness: the upstream refused the one call of a request with 503; the client
\* has the refusal and no second call was made.
C33_Witness ==
    /\ Refused(1) /\ UpstreamFailed(1) /\ task[1].upstream[1].status = 503
    /\ Len(task[1].calls) = 1 /\ task[1].key = "resolved"
    /\ Len(task[1].sent) = 1 /\ task[1].sent[1].status = 503

\* sequence a is an initial part of sequence b
IsPrefix(a, b) == Len(a) <= Len(b) /\ SubSeq(b, 1, Len(a)) = a

\* C34: when the upstream stream fails after streaming to the client has begun, the
\* failure ends the client response in the same step, leaves the chunks already
\* written as they are and writes none, and sends no status and no JSON body; from
\* then on nothing is written or sent.  While a response is streamed the chunks
\* written only grow at the end.
C34_StreamFailureEndsResponse ==
    /\ [](\A t \in Tasks : task[t].broke =>
            /\ task[t].streaming /\ task[t].pc = "done"
            /\ task[t].ends = 1 /\ task[t].sent = <<>>)
    /\ [][\A t \in Tasks :
            /\ (task'[t].broke /\ ~task[t].broke) =>
                  /\ task[t].pc = "streaming" /\ task'[t].written = task[t].written
                  /\ task[t].ends = 0 /\ task'[t].ends = 1
            /\ task[t].broke => (task'[t].written = task[t].written
                                  /\ task'[t].sent = <<>> /\ task'[t].ends = 1)
            /\ task[t].streaming => IsPrefix(task[t].written, task'[t].written)]_vars

\* C34 witness: the stream of a request broke after two chunks were written and
\* before the upstream's feed was read to its end; the response is ended.
C34_Witness ==
    /\ task[1].broke /\ task[1].ends = 1 /\ task[1].sent = <<>>
    /\ Len(task[1].written) = 2 /\ Len(task[1].upstream) < Len(feed)

(***************************************************************************)
(* Claims about the rewriting of the messages and of the reasoning fields. *)
(***************************************************************************)
\* the messages of a body, none when it has no messages member
MessagesOf(body) == IF Has(body, "messages") THEN body.messages ELSE <<>>

\* C35: transformToCommon changes at most one message.  Without a configured system
\* prompt the messages are the client's.  With one and no system message in the
\* request, the messages are the client's, in their order, after one new system
\* message that carries the prompt: one more than before.  With one and system
\* messages in the request, the number of messages is the same, every message but
\* the first system message is the client's, at its place, and the first system
\* message is a system message whose content begins with the prompt, followed by
\* the client's content when that is a string.
C35_AtMostOneMessageChanged ==
    (tkind = "common" /\ Rewritten) =>
        LET inMsgs == MessagesOf(tin)
            outMsgs == MessagesOf(out)
            first == FirstSystem(inMsgs)
            prompt == config.systemPrompt
        IN  /\ Has(out, "messages") = (Has(tin, "messages") \/ prompt # "")
            /\ IF prompt = "" THEN outMsgs = inMsgs
               ELSE IF first = 0
               THEN /\ Len(outMsgs) = Len(inMsgs) + 1
                    /\ Head(outMsgs) = [role |-> "system", content |-> [str |-> prompt]]
                    /\ Tail(outMsgs) = inMsgs
               ELSE /\ Len(outMsgs) = Len(inMsgs)
                    /\ \A i \in 1..Len(inMsgs) : i # first => outMsgs[i] = inMsgs[i]
                    /\ outMsgs[first].role = "system"
                    /\ DOMAIN outMsgs[first] = {"role", "content"}
                    /\ IsStr(outMsgs[first].content)
                    /\ IsPrefix(prompt, outMsgs[first].content.str)
                    /\ IsStr(inMsgs[first].content) =>
                          outMsgs[first].content.str = prompt \o inMsgs[first].content.str

\* C35 witness: a request with two system messages was rewritten under a configured
\* prompt: the first carries the prompt, the second is the client's.
C35_Witness ==
    /\ tkind = "common" /\ Rewritten /\ config.systemPrompt = "P:"
    /\ Has(tin, "messages") /\ Len(tin.messages) = 2
    /\ tin.messages[1] = [role |-> "system", content |-> [str |-> "a"]]
    /\ tin.messages[2] = [role |-> "system", content |-> [str |-> "a"]]
    /\ out.messages[1] = [role |-> "system", content |-> [str |-> "P:a"]]
    /\ out.messages[2] = tin.messages[2]

\* the levels for which a rewriting keeps or sets its reasoning field
RecognisedLevels == {"auto", "low", "medium", "high"}
\* the reasoning field each rewriting governs
GovernedField(kind) ==
    CASE kind = "common" -> "reasoning_effort"
      [] kind = "responses" -> "reasoning"
      [] kind = "messages" -> "thinking"
\* what each rewriting gives for the client body under the level off
OutboundUnderOff(kind, body) ==
    LET modelId == getRedirectedModelId(ModelOf(body))
    IN  CASE kind = "common" ->
                CommonReasoning(CommonWithPrompt(With(body, "model", modelId)), "off")
          [] kind = "responses" ->
                ResponsesReasoning(ResponsesWithPrompt(body, modelId), "off")
          [] kind = "messages" ->
                MessagesReasoning(MessagesWithPrompt(body, modelId), "off")

====
